---- MODULE Spec2Model ----
(***************************************************************************)
(* A model of koishi-plugin-menu: the command tree extraction (Extract),   *)
(* the cache key generator and file cache (FileStore) and the safe write   *)
(* of the image cache (Cache.safeWrite).                                   *)
(*                                                                         *)
(* JavaScript objects are functions with a string domain; a key that is    *)
(* absent from the object is absent from the DOMAIN.  Objects whose key    *)
(* order matters (Object.entries) are sequences of <<key, value>> pairs    *)
(* with pairwise distinct keys.  A value that may be null or undefined is  *)
(* a sequence of length 0 or 1.                                            *)
(***************************************************************************)
EXTENDS Integers, Sequences, FiniteSets, TLC

\* Number of command nodes in the registry.
MaxNodes == 3
\* Highest authority level of a command, an option or a caller.
MaxAuth == 2

VARIABLES
  commander,   \* ctx.$commander._commandList: node id -> command object
  snapshots,   \* ctx.get('commands').snapshots: command name -> <<>> or <<snapshot>>
  session,     \* the calling session: user authority, locales
  call,        \* the call in progress on Extract or FileStore, with its arguments
  result,      \* what that call returned
  dir,         \* the directory of the cache files: file name -> inode, 0 for none
  inodes,      \* the content of each inode: a sequence of chunks
  procs,       \* the asynchronous calls in progress on the cache files
  crashed,     \* the process was interrupted
  ghost        \* history of the calls, for the properties

xvars == <<commander, snapshots, session, call, result>>

fvars == <<dir, inodes, procs, crashed, ghost>>

vars == <<commander, snapshots, session, call, result, dir, inodes, procs, crashed, ghost>>

Nodes == 1..MaxNodes
AuthLevels == 0..MaxAuth

\* ---------------------------------------------------------------- objects

EmptyObj == << >>

Has(o, k) == k \in DOMAIN o

\* o?.[k] || d
GetOr(o, k, d) == IF Has(o, k) THEN o[k] ELSE d

\* { ...a, ...b }
Spread(a, b) ==
  [k \in (DOMAIN a) \cup (DOMAIN b) |-> IF k \in DOMAIN b THEN b[k] ELSE a[k]]

Keys(entries) == [i \in DOMAIN entries |-> entries[i][1]]

IndexOfKey(entries, k) ==
  IF \E i \in DOMAIN entries : entries[i][1] = k
    THEN CHOOSE i \in DOMAIN entries :
           /\ entries[i][1] = k
           /\ \A j \in DOMAIN entries : entries[j][1] = k => i <= j
    ELSE 0

\* obj[k] = v on an object in insertion order: an existing key keeps its place.
SetEntry(entries, k, v) ==
  IF IndexOfKey(entries, k) = 0
    THEN Append(entries, <<k, v>>)
    ELSE [entries EXCEPT ![IndexOfKey(entries, k)] = <<k, v>>]

RECURSIVE FlatMap(_, _)
\* s.map(F) for an F that returns a list, then flattened by one level.
FlatMap(F(_), s) ==
  IF s = << >> THEN << >> ELSE F(Head(s)) \o FlatMap(F, Tail(s))

RECURSIVE SeqRange(_)
SeqRange(s) == IF s = << >> THEN {} ELSE {Head(s)} \cup SeqRange(Tail(s))

\* A command name or an alias is the sequence of its segments: <<"a", "b">> is
\* the name a.b. A segment is a single letter.
Letters == <<"a", "b", "c", "d", "e">>

LetterRank(l) == CHOOSE i \in DOMAIN Letters : Letters[i] = l

RECURSIVE NameLess(_, _)
\* x.localeCompare(y) < 0: the dot sorts before every letter
NameLess(x, y) ==
  IF y = << >> THEN FALSE
  ELSE IF x = << >> THEN TRUE
  ELSE IF x[1] # y[1] THEN LetterRank(x[1]) < LetterRank(y[1])
  ELSE NameLess(Tail(x), Tail(y))

\* Array.prototype.sort with the comparator Less (stable: an element is put
\* behind every element it is not less than).
RECURSIVE SortInsert(_, _, _)
SortInsert(Less(_, _), x, s) ==
  IF s = << >> THEN <<x>>
  ELSE IF Less(x, Head(s)) THEN <<x>> \o s
  ELSE <<Head(s)>> \o SortInsert(Less, x, Tail(s))

RECURSIVE ArraySort(_, _)
ArraySort(Less(_, _), s) ==
  IF s = << >> THEN << >>
  ELSE SortInsert(Less, s[Len(s)], ArraySort(Less, SubSeq(s, 1, Len(s) - 1)))

\* ---------------------------------------------------------------- texts

\* What session.text returns: a plain string, or an array of segments that are
\* plain strings or elements carrying attrs.content.
Str(s) == [kind |-> "string", val |-> s]
Arr(items) == [kind |-> "array", val |-> items]

RECURSIVE JoinSpace(_)
JoinSpace(items) ==
  IF items = << >> THEN ""
  ELSE IF Len(items) = 1 THEN items[1]
  ELSE items[1] \o " " \o JoinSpace(Tail(items))

\* item => typeof item === 'string' ? item : item?.attrs?.content || ''
SegmentText(item) == IF Has(item, "str") THEN item.str ELSE GetOr(item, "content", "")

cleanText(data) ==
  IF data.kind = "string" THEN data.val
  ELSE IF data.kind = "array"
    THEN JoinSpace(SelectSeq([i \in DOMAIN data.val |-> SegmentText(data.val[i])],
                             LAMBDA t : t # ""))
  ELSE ""

\* session?.text?.(path) || '' on a string result; an array result is truthy.
TextOrEmpty(t) == IF t.kind = "string" /\ t.val = "" THEN Str("") ELSE t

RECURSIVE FirstString(_)
\* Object.values(dict).find(v => typeof v === 'string'), <<>> when there is none
FirstString(entries) ==
  IF entries = << >> THEN << >>
  ELSE IF entries[1][2] # "" THEN <<entries[1][2]>>
  ELSE FirstString(Tail(entries))

DictAt(entries, k) ==
  IF IndexOfKey(entries, k) = 0 THEN "" ELSE entries[IndexOfKey(entries, k)][2]

\* The first locale of the session, 'zh-CN' when it has none.
PrimaryLocale == IF session.locales = << >> THEN "zh-CN" ELSE session.locales[1]

\* texts is <<>> (null) or <<object>>; an entry is Str(s) or a locale dictionary
\* [kind |-> "dict", val |-> entries]. fallback is the value of fallback().
getEffectiveText(texts, path, fallback) ==
  IF texts = << >> \/ ~Has(texts[1], path) THEN fallback
  ELSE LET overrideText == texts[1][path] IN
    IF overrideText.kind = "string"
      THEN (IF overrideText.val = "" THEN fallback ELSE overrideText.val)
    ELSE IF overrideText.kind = "dict"
      THEN LET d == overrideText.val IN
        IF DictAt(d, PrimaryLocale) # "" THEN DictAt(d, PrimaryLocale)
        ELSE IF DictAt(d, "zh-CN") # "" THEN DictAt(d, "zh-CN")
        ELSE IF DictAt(d, "en-US") # "" THEN DictAt(d, "en-US")
        ELSE IF FirstString(d) # << >> THEN FirstString(d)[1]
        ELSE fallback
    ELSE fallback

\* ---------------------------------------------------------------- overrides

\* An override value that is not an object (null, false, a number).
Scalar(v) == [scalar |-> v]
IsScalar(o) == Has(o, "scalar")

RECURSIVE MergeOptions_Replace(_, _)
\* MergeOptions in which an object of the override replaces the initial option
MergeOptions_Replace(merged, overrides) ==
  IF overrides = << >> THEN merged
  ELSE MergeOptions_Replace(SetEntry(merged, overrides[1][1], overrides[1][2]),
                            Tail(overrides))

RECURSIVE MergeOptions(_, _)
\* Object.entries(override.options).forEach(([key, override]) => merged[key] = ...)
MergeOptions(merged, overrides) ==
  IF overrides = << >> THEN merged
  ELSE LET key == overrides[1][1]
           override == overrides[1][2]
           old == IF IndexOfKey(merged, key) = 0 THEN EmptyObj
                  ELSE merged[IndexOfKey(merged, key)][2]
           new == IF IsScalar(override) THEN override
                  ELSE Spread(IF IsScalar(old) THEN EmptyObj ELSE old, override)
       IN MergeOptions(SetEntry(merged, key, new), Tail(overrides))

\* getEffectiveData that leaves the override's config out of the merge
getEffectiveData_NoOverrideConfig(command) ==
  LET snapshot == snapshots[command.name] IN
  IF snapshot = << >>
    THEN [config |-> command.config, options |-> command._options,
          aliases |-> command._aliases, texts |-> << >>]
    ELSE LET initial == snapshot[1].initial
             override == snapshot[1].override
         IN [config |-> GetOr(initial, "config", EmptyObj),
             options |-> MergeOptions(initial.options, GetOr(override, "options", << >>)),
             aliases |-> IF Has(override, "aliases")
                           THEN override.aliases ELSE command._aliases,
             texts |-> IF Has(override, "texts") THEN <<override.texts>> ELSE << >>]

\* What a call that throws (a TypeError on a property of undefined) gives.
Thrown == [threw |-> TRUE]

\* Extract.getEffectiveData(command); snapshot.initial.options and
\* snapshot.override.options throw when initial or override is undefined
getEffectiveData(command) ==
  LET snapshot == snapshots[command.name] IN
  IF snapshot = << >>
    THEN [config |-> command.config, options |-> command._options,
          aliases |-> command._aliases, texts |-> << >>]
  ELSE IF ~Has(snapshot[1], "initial") \/ ~Has(snapshot[1], "override")
    THEN Thrown
    ELSE LET initial == snapshot[1].initial
             override == snapshot[1].override
         IN [config |-> Spread(GetOr(initial, "config", EmptyObj),
                               GetOr(override, "config", EmptyObj)),
             options |-> MergeOptions(GetOr(initial, "options", << >>),
                                      GetOr(override, "options", << >>)),
             aliases |-> IF Has(override, "aliases")
                           THEN override.aliases ELSE command._aliases,
             texts |-> IF Has(override, "texts") THEN <<override.texts>> ELSE << >>]

\* getEffectiveData(command) throws
Throws(command) == getEffectiveData(command) = Thrown

\* getEffectiveData(command).config?.authority || command.config?.authority || 0,
\* for a command whose getEffectiveData returns
getAuthority(command) ==
  LET eff == GetOr(getEffectiveData(command).config, "authority", 0) IN
  IF eff # 0 THEN eff ELSE GetOr(command.config, "authority", 0)

\* ---------------------------------------------------------------- names

\* NameItemLess that compares the names only
NameItemLess_NameOnly(a, b) == NameLess(a.name, b.name)

\* the comparator of the sort in processNameConfig, as "a goes before b"
NameItemLess(a, b) ==
  IF a.isDefault THEN TRUE
  ELSE IF b.isDefault THEN FALSE
  ELSE NameLess(a.name, b.name)

RECURSIVE NameItems(_, _)

\* NameItems that marks every enabled alias as the default
NameItems_EveryEnabledDefault(aliasEntries, hasDefault) ==
  [i \in DOMAIN aliasEntries |->
     [name |-> aliasEntries[i][1],
      enabled |-> GetOr(aliasEntries[i][2], "filter", TRUE) # FALSE,
      isDefault |-> GetOr(aliasEntries[i][2], "filter", TRUE) # FALSE]]

\* the forEach over the alias entries, hasDefault carried along
NameItems(aliasEntries, hasDefault) ==
  IF aliasEntries = << >> THEN << >>
  ELSE LET alias == aliasEntries[1][1]
           config == aliasEntries[1][2]
           enabled == GetOr(config, "filter", TRUE) # FALSE
           isDefault == ~hasDefault /\ enabled
       IN <<[name |-> alias, enabled |-> enabled, isDefault |-> isDefault]>>
            \o NameItems(Tail(aliasEntries), hasDefault \/ isDefault)

processNameConfig(command) ==
  LET aliasEntries == getEffectiveData(command).aliases IN
  IF aliasEntries = << >>
    THEN <<[name |-> command.name, enabled |-> TRUE, isDefault |-> TRUE]>>
    ELSE ArraySort(NameItemLess, NameItems(aliasEntries, FALSE))

\* ---------------------------------------------------------------- options

\* session?.resolve?.(x) || false, for the hidden flag of a config or an option
ResolveHidden(o) == GetOr(o, "hidden", FALSE)

\* texts?.options as a texts argument of getEffectiveText
OptionTexts(texts) ==
  IF texts # << >> /\ Has(texts[1], "options") THEN <<texts[1].options>> ELSE << >>

\* addOption(option, name) on the list built so far; seenOptions is the set of
\* the names in it. The text of the option's description path is option.text.
\* addOption that does not look at the names already seen
addOption_NoSeen(options, option, name, userAuth, texts) ==
  IF \/ IsScalar(option)
     \/ name = ""
     \/ userAuth < GetOr(option, "authority", 0)
    THEN options
    ELSE LET desc == getEffectiveText(OptionTexts(texts), name, GetOr(option, "text", ""))
             syntax == GetOr(option, "syntax", "")
         IN IF desc # "" \/ syntax # ""
              THEN Append(options, [name |-> name, desc |-> desc, syntax |-> syntax,
                                    hidden |-> ResolveHidden(option),
                                    authority |-> GetOr(option, "authority", 0)])
              ELSE options

addOption(options, option, name, userAuth, texts) ==
  IF \/ IsScalar(option)
     \/ name = ""
     \/ userAuth < GetOr(option, "authority", 0)
     \/ \E i \in DOMAIN options : options[i].name = name
    THEN options
    ELSE LET desc == getEffectiveText(OptionTexts(texts), name, GetOr(option, "text", ""))
             syntax == GetOr(option, "syntax", "")
         IN IF desc # "" \/ syntax # ""
              THEN Append(options, [name |-> name, desc |-> desc, syntax |-> syntax,
                                    hidden |-> ResolveHidden(option),
                                    authority |-> GetOr(option, "authority", 0)])
              ELSE options

RECURSIVE addVariants(_, _, _, _, _)
\* Object.keys(opt.variants).forEach(variantKey => addOption(..., base.variantKey))
addVariants(options, base, variants, userAuth, texts) ==
  IF variants = << >> THEN options
  ELSE addVariants(
         addOption(options, variants[1][2], base \o "." \o variants[1][1], userAuth, texts),
         base, Tail(variants), userAuth, texts)

\* opt?.name || key
OptionBase(key, opt) == IF GetOr(opt, "name", "") # "" THEN opt.name ELSE key

\* addEntry that adds the option under its own name whether or not it has a value
addEntry_AlwaysDirect(options, key, opt, userAuth, texts) ==
  IF IsScalar(opt) THEN options
  ELSE LET direct == addOption(options, opt, OptionBase(key, opt), userAuth, texts)
       IN IF Has(opt, "variants")
            THEN addVariants(direct, OptionBase(key, opt), opt.variants, userAuth, texts)
            ELSE direct

\* The body of the forEach over Object.entries(effectiveOptions), for one entry.
addEntry(options, key, opt, userAuth, texts) ==
  IF IsScalar(opt) THEN options
  ELSE LET direct == IF ~Has(opt, "value")
                       THEN addOption(options, opt, OptionBase(key, opt), userAuth, texts)
                       ELSE options
       IN IF Has(opt, "variants")
            THEN addVariants(direct, OptionBase(key, opt), opt.variants, userAuth, texts)
            ELSE direct

RECURSIVE addEntries(_, _, _, _)
addEntries(options, entries, userAuth, texts) ==
  IF entries = << >> THEN options
  ELSE addEntries(addEntry(options, entries[1][1], entries[1][2], userAuth, texts),
                  Tail(entries), userAuth, texts)

buildOptions(effectiveOptions, userAuth, texts) ==
  addEntries(<< >>, effectiveOptions, userAuth, texts)

\* ---------------------------------------------------------------- build

\* session.text of a path of the command: its i18n texts are command.text.
getText(command, path) == TextOrEmpty(GetOr(command.text, path, Str("")))

\* usage: the override text, else _usage (a string, or a function that returns
\* one or throws), else the i18n text; a throw falls back to the i18n text.
getUsageText(command, texts) ==
  LET overrideUsage == getEffectiveText(texts, "usage", "") IN
  IF overrideUsage # "" THEN Str(overrideUsage)
  ELSE IF command._usage # << >> /\ command._usage[1].kind = "string"
            /\ command._usage[1].val # ""
    THEN Str(command._usage[1].val)
  ELSE IF command._usage # << >> /\ command._usage[1].kind = "fn"
    THEN Str(command._usage[1].val)
  ELSE getText(command, "usage")

RECURSIVE JoinLines(_)
JoinLines(lines) ==
  IF lines = << >> THEN ""
  ELSE IF Len(lines) = 1 THEN lines[1]
  ELSE lines[1] \o "\n\n" \o JoinLines(Tail(lines))

\* command._examples joined, else the lines of the i18n text that are not blank
getExamplesText(command) ==
  IF command._examples # << >> THEN JoinLines(command._examples)
  ELSE JoinLines(SelectSeq(GetOr(command.text, "examples", << >>), LAMBDA l : l # ""))

\* a value that may be undefined
Undefined == << >>
Defined(v) == <<v>>

RECURSIVE build(_, _)
RECURSIVE buildSubCommands(_, _)

\* uniqueChildren that keeps the last child of a name instead of the first
uniqueChildren_KeepLast(command) ==
  LET arr == command.children IN
  SelectSeq([i \in DOMAIN arr |-> <<i, arr[i]>>],
            LAMBDA p : /\ commander[p[2]].name # << >>
                       /\ \A j \in (p[1] + 1)..Len(arr) :
                            commander[arr[j]].name # commander[p[2]].name)

\* The children kept by the first filter of buildSubCommands, each with its
\* index in command.children.
uniqueChildren(command) ==
  LET arr == command.children IN
  SelectSeq([i \in DOMAIN arr |-> <<i, arr[i]>>],
            LAMBDA p : /\ commander[p[2]].name # << >>
                       /\ \A j \in 1..(p[1] - 1) :
                            commander[arr[j]].name # commander[p[2]].name)

VisibleChild(userAuth, p) ==
  commander[p[2]].visible /\ userAuth >= getAuthority(commander[p[2]])

\* Extract.buildSubCommands; when getAuthority(sub) throws in the filter, the
\* catch returns undefined
buildSubCommands(n, userAuth) ==
  LET command == commander[n] IN
  IF command.children = << >> THEN Undefined
  ELSE IF \E i \in DOMAIN uniqueChildren(command) :
            LET sub == commander[uniqueChildren(command)[i][2]]
            IN sub.visible /\ Throws(sub)
    THEN Undefined
  ELSE LET kept == SelectSeq(uniqueChildren(command), LAMBDA p : VisibleChild(userAuth, p))
           subs == FlatMap(LAMBDA p : build(p[2], userAuth), kept)
       IN IF subs # << >> THEN Defined(subs) ELSE Undefined

\* build(command, session, userAuth): <<>> for null, else <<Command>>. The
\* field node is not part of the Command: it records the registry node the
\* Command was built from.
build(n, userAuth) ==
  LET command == commander[n]
      eff == getEffectiveData(command)
      cmdAuth == GetOr(eff.config, "authority", 0)
  IN IF userAuth < cmdAuth THEN << >>
     ELSE <<[node |-> n,
             group |-> IF GetOr(eff.config, "group", "") # ""
                         THEN eff.config.group ELSE "Other",
             name |-> processNameConfig(command),
             authority |-> cmdAuth,
             hidden |-> ResolveHidden(eff.config),
             desc |-> getEffectiveText(eff.texts, "description",
                                       cleanText(getText(command, "description"))),
             usage |-> cleanText(getUsageText(command, eff.texts)),
             examples |-> getExamplesText(command),
             options |-> buildOptions(eff.options, userAuth, eff.texts),
             subs |-> buildSubCommands(n, userAuth)]>>

\* session.user?.authority || 0
UserAuth == session.authority

CommandLess(a, b) == NameLess(a.name[1].name, b.name[1].name)

\* Extract.all
\* Extract.all, which throws when getAuthority(cmd) does in its filter
all ==
  IF \E n \in Nodes : commander[n].parent = 0 /\ commander[n].visible /\ Throws(commander[n])
    THEN <<Thrown>> ELSE
  LET commandList == SelectSeq([i \in 1..MaxNodes |-> i],
        LAMBDA n : /\ commander[n].parent = 0
                   /\ commander[n].visible
                   /\ UserAuth >= getAuthority(commander[n]))
      commands == FlatMap(LAMBDA n : build(n, UserAuth), commandList)
  IN ArraySort(CommandLess, commands)

\* filter that forgets the detail view when it drops hidden commands
filter_NoDetailView(commands, showHidden, isDetailView) ==
  SelectSeq(
    [i \in DOMAIN commands |->
       [commands[i] EXCEPT
          !.options = SelectSeq(@, LAMBDA opt : showHidden \/ ~opt.hidden),
          !.subs = IF @ = Undefined THEN Undefined
                   ELSE Defined(SelectSeq(@[1], LAMBDA sub : showHidden \/ ~sub.hidden))]],
    LAMBDA cmd : showHidden \/ ~cmd.hidden)

\* filter that strips the hidden subcommands and leaves the options alone
filter_KeepOptions(commands, showHidden, isDetailView) ==
  SelectSeq(
    [i \in DOMAIN commands |->
       [commands[i] EXCEPT
          !.subs = IF @ = Undefined THEN Undefined
                   ELSE Defined(SelectSeq(@[1], LAMBDA sub : showHidden \/ ~sub.hidden))]],
    LAMBDA cmd : isDetailView \/ showHidden \/ ~cmd.hidden)

\* Extract.filter
filter(commands, showHidden, isDetailView) ==
  SelectSeq(
    [i \in DOMAIN commands |->
       [commands[i] EXCEPT
          !.options = SelectSeq(@, LAMBDA opt : showHidden \/ ~opt.hidden),
          !.subs = IF @ = Undefined THEN Undefined
                   ELSE Defined(SelectSeq(@[1], LAMBDA sub : showHidden \/ ~sub.hidden))]],
    LAMBDA cmd : isDetailView \/ showHidden \/ ~cmd.hidden)

\* this.ctx.$commander.resolve(target, session): the command registered under
\* the name or alias target, <<>> when there is none
resolve(target) ==
  LET hits == {n \in Nodes : \/ commander[n].name = target
                             \/ IndexOfKey(commander[n]._aliases, target) # 0}
  IN IF hits = {} THEN << >> ELSE <<CHOOSE n \in hits : \A m \in hits : n <= m>>

\* Extract.find throws: getEffectiveData(command) does
findThrows(target) ==
  LET command == resolve(target) IN
  command # << >> /\ commander[command[1]].visible /\ Throws(commander[command[1]])

\* Extract.find when it returns; no shortcut of the i18n texts matches a name
\* of the model
find(target) ==
  LET command == resolve(target) IN
  IF command # << >> /\ commander[command[1]].visible
    THEN LET aliases == getEffectiveData(commander[command[1]]).aliases
             i == IndexOfKey(aliases, target)
         IN IF i = 0 \/ GetOr(aliases[i][2], "filter", TRUE) # FALSE
              THEN command ELSE << >>
    ELSE << >>

\* Extract.single: <<>> for null, <<Thrown>> when find throws
single(cmdName) ==
  IF cmdName = << >> THEN << >>
  ELSE IF findThrows(cmdName) THEN <<Thrown>>
  ELSE LET command == find(cmdName) IN
       IF command = << >> THEN << >> ELSE build(command[1], UserAuth)

\* Extract.related
related(cmdName) ==
  LET target == single(cmdName) IN
  IF target = << >> THEN << >>
  ELSE IF target = <<Thrown>> THEN <<Thrown>>
  ELSE IF Len(cmdName) > 1
    THEN LET parent == single(<<cmdName[1]>>) IN
         IF parent = <<Thrown>> THEN <<Thrown>>
         ELSE IF parent # << >> /\ parent[1].name[1].name # target[1].name[1].name
           THEN parent \o target ELSE target
    ELSE target

\* ---------------------------------------------------------------- registry

\* A command as the registry holds it right after ctx.command(name): its own
\* name is its first alias.
NewCommand(name, parent, children) ==
  [name |-> name, parent |-> parent, children |-> children, visible |-> TRUE,
   config |-> EmptyObj, _aliases |-> << <<name, EmptyObj>> >>, _options |-> << >>,
   _usage |-> << >>, _examples |-> << >>, text |-> EmptyObj]

\* The parents of a forest: a node is a root (0) or the child of a smaller node.
Forests == {p \in [Nodes -> 0..MaxNodes] : \A n \in Nodes : p[n] < n}

ChildrenOf(p, n) == SelectSeq([i \in 1..MaxNodes |-> i], LAMBDA m : p[m] = n)

RECURSIVE PathName(_, _, _)
\* The dotted name of node n: the name of its parent and its own segment.
PathName(p, seg, n) ==
  IF p[n] = 0 THEN <<seg[n]>> ELSE Append(PathName(p, seg, p[n]), seg[n])

Registry(p, seg) ==
  [n \in Nodes |-> NewCommand(PathName(p, seg, n), p[n], ChildrenOf(p, n))]

NoSnapshots(reg) == [nm \in {reg[n].name : n \in Nodes} |-> << >>]

Obj1(k, v) == [x \in {k} |-> v]

\* The snapshot the commands plugin keeps of a command it overrides.
Snapshot(command, override) ==
  <<[initial |-> [config |-> command.config, options |-> command._options],
     override |-> override]>>

\* ---------------------------------------------------------------- calls

\* No cache file and no call on the files.
NoFiles ==
  /\ dir = << >>
  /\ inodes = << >>
  /\ procs = << >>
  /\ crashed = FALSE
  /\ ghost = << >>

NoCall == [op |-> "none"]

\* A call is made on an extractor that is not in a call; Return ends the call.
CallAll ==
  /\ call = NoCall
  /\ call' = [op |-> "all"]
  /\ result' = all
  /\ UNCHANGED <<commander, snapshots, session, fvars>>

CallSingle ==
  \E n \in Nodes :
    /\ call = NoCall
    /\ call' = [op |-> "single", cmdName |-> commander[n].name]
    /\ result' = single(commander[n].name)
    /\ UNCHANGED <<commander, snapshots, session, fvars>>

CallRelated ==
  \E n \in Nodes :
    /\ call = NoCall
    /\ call' = [op |-> "related", cmdName |-> commander[n].name]
    /\ result' = related(commander[n].name)
    /\ UNCHANGED <<commander, snapshots, session, fvars>>

\* Extract.filter on the list a call of all, single or related returned
CallFilter ==
  \E showHidden \in BOOLEAN, isDetailView \in BOOLEAN :
    /\ call.op \in {"all", "single", "related"}
    /\ call' = [op |-> "filter", from |-> call.op, commands |-> result,
                showHidden |-> showHidden, isDetailView |-> isDetailView]
    /\ result' = filter(result, showHidden, isDetailView)
    /\ UNCHANGED <<commander, snapshots, session, fvars>>

Return ==
  /\ call # NoCall
  /\ call' = NoCall
  /\ result' = << >>
  /\ UNCHANGED <<commander, snapshots, session, fvars>>

\* Registries that differ in shape, in the authority of the commands and of
\* one override, for callers of every authority.
InitAuth ==
  \E p \in Forests, auth \in [Nodes -> AuthLevels], a \in AuthLevels :
    LET reg == [n \in Nodes |->
                  [Registry(p, [m \in Nodes |-> Letters[m]])[n]
                     EXCEPT !.config = Obj1("authority", auth[n])]]
    IN /\ commander = reg
       /\ \E o \in {0, 2}, oa \in AuthLevels :
            /\ o = 0 => oa = 0
            /\ snapshots = [nm \in DOMAIN NoSnapshots(reg) |->
                 IF o # 0 /\ nm = reg[o].name
                   THEN Snapshot(reg[o], [config |-> Obj1("authority", oa)])
                   ELSE << >>]
       /\ session = [authority |-> a, locales |-> << >>]
       /\ call = NoCall
       /\ result = << >>
       /\ NoFiles

NextAll == CallAll \/ Return

SpecAuth == InitAuth /\ [][NextAll]_vars

\* The nodes the Commands of a list, and of their subs, were built from.
RECURSIVE TreeNodes(_)
TreeNodes(commands) ==
  IF commands = << >> THEN {}
  ELSE {commands[1].node}
         \cup (IF commands[1].subs = Undefined THEN {} ELSE TreeNodes(commands[1].subs[1]))
         \cup TreeNodes(Tail(commands))

RECURSIVE IsDescendantOrSelf(_, _)
IsDescendantOrSelf(d, c) ==
  \/ d = c
  \/ commander[d].parent # 0 /\ IsDescendantOrSelf(commander[d].parent, c)

\* The authority a command requires: the override's when the snapshot's
\* override sets one, else the one of the snapshot's initial config, else,
\* with no snapshot, the static one; 0 when none is set.
RequiredAuthority(n) ==
  LET s == snapshots[commander[n].name] IN
  IF s = << >> THEN GetOr(commander[n].config, "authority", 0)
  ELSE IF Has(s[1].override, "config") /\ Has(s[1].override.config, "authority")
    THEN s[1].override.config.authority
  ELSE GetOr(s[1].initial.config, "authority", 0)

\* C1: a command whose required authority is above the caller's, and every
\* descendant of it, is nowhere in the tree Extract.all returns, whatever the
\* authority of the descendants.
C1_AuthorityMonotone ==
  call.op = "all" =>
    \A c \in Nodes : UserAuth < RequiredAuthority(c) =>
      \A d \in Nodes : IsDescendantOrSelf(d, c) => d \notin TreeNodes(result)

\* A command below a built parent is refused at the second level of the
\* recursion, and its own child would have passed the check.
C1_Witness ==
  /\ call.op = "all"
  /\ \E c \in Nodes, d \in Nodes :
       /\ commander[c].parent # 0
       /\ commander[c].parent \in TreeNodes(result)
       /\ commander[d].parent = c
       /\ UserAuth < RequiredAuthority(c)
       /\ RequiredAuthority(d) <= UserAuth

\* The Commands of a list and of their subs, at every depth.
RECURSIVE TreeCommands(_)
TreeCommands(commands) ==
  IF commands = << >> THEN {}
  ELSE {commands[1]}
         \cup (IF commands[1].subs = Undefined THEN {} ELSE TreeCommands(commands[1].subs[1]))
         \cup TreeCommands(Tail(commands))

SubsOf(cmd) == IF cmd.subs = Undefined THEN << >> ELSE cmd.subs[1]

\* ---------------------------------------------------------------- C8

\* Registries in which siblings may share a name, and each command is visible
\* to the caller, invisible, or restricted to the highest authority.
InitDedup ==
  \E p \in Forests, seg \in [Nodes -> {"a", "b"}],
     kind \in [Nodes -> {"ok", "invisible", "restricted"}], a \in AuthLevels :
    LET reg == [n \in Nodes |->
                  [Registry(p, seg)[n]
                     EXCEPT !.visible = (kind[n] # "invisible"),
                            !.config = IF kind[n] = "restricted"
                                         THEN Obj1("authority", MaxAuth) ELSE EmptyObj]]
    IN /\ commander = reg
       /\ snapshots = NoSnapshots(reg)
       /\ session = [authority |-> a, locales |-> << >>]
       /\ call = NoCall
       /\ result = << >>
       /\ NoFiles

SpecDedup == InitDedup /\ [][NextAll]_vars

\* The first child of node n, in the order of its children list, named nm.
FirstChildNamed(n, nm) ==
  LET arr == commander[n].children
      i == CHOOSE i \in DOMAIN arr :
             /\ commander[arr[i]].name = nm
             /\ \A j \in 1..(i - 1) : commander[arr[j]].name # nm
  IN arr[i]

\* C8: in every built Command the subs hold at most one entry per child name,
\* and that entry is built from the first child of that name.
C8_ChildDedup ==
  call.op = "all" =>
    \A cmd \in TreeCommands(result) :
      LET subs == SubsOf(cmd) IN
      /\ \A i \in DOMAIN subs, j \in DOMAIN subs :
           commander[subs[i].node].name = commander[subs[j].node].name => i = j
      /\ \A i \in DOMAIN subs :
           subs[i].node = FirstChildNamed(cmd.node, commander[subs[i].node].name)

\* A built command has two children of one name, and an entry for that name.
C8_Witness ==
  /\ call.op = "all"
  /\ \E cmd \in TreeCommands(result) :
       \E x \in Nodes, y \in Nodes :
         /\ x # y
         /\ commander[x].parent = cmd.node
         /\ commander[y].parent = cmd.node
         /\ commander[x].name = commander[y].name
         /\ \E i \in DOMAIN SubsOf(cmd) : SubsOf(cmd)[i].node = x

\* ---------------------------------------------------------------- C7

\* Number of aliases of a command.
MaxAliases == 3

RECURSIVE DistinctSeqs(_, _)
\* The sequences of at most n pairwise distinct elements of S.
DistinctSeqs(S, n) ==
  IF n = 0 THEN {<< >>}
  ELSE LET shorter == DistinctSeqs(S, n - 1) IN
       shorter \cup UNION {{Append(q, x) : x \in S \ SeqRange(q)} :
                              q \in {r \in shorter : Len(r) = n - 1}}

\* The alias objects: { }, { filter: true }, { filter: false }.
AliasConfigs == {EmptyObj, Obj1("filter", TRUE), Obj1("filter", FALSE)}

\* One root command per node; the aliases of the first are any alias set, either
\* its static ones or the ones of an override.
InitNames ==
  \E names \in DistinctSeqs({"a", "b", "c"}, MaxAliases), byOverride \in BOOLEAN :
   \E configs \in [DOMAIN names -> AliasConfigs] :
    LET aliases == [i \in DOMAIN names |-> << <<names[i]>>, configs[i]>>]
        plain == Registry([n \in Nodes |-> 0], [n \in Nodes |-> Letters[n]])
        reg == [plain EXCEPT ![1]._aliases = IF byOverride THEN @ ELSE aliases]
    IN /\ commander = reg
       /\ snapshots = [nm \in DOMAIN NoSnapshots(reg) |->
            IF byOverride /\ nm = reg[1].name
              THEN Snapshot(reg[1], [aliases |-> aliases]) ELSE << >>]
       /\ session = [authority |-> 0, locales |-> << >>]
       /\ call = NoCall
       /\ result = << >>
       /\ NoFiles

NextNames == CallAll \/ CallSingle \/ Return

SpecNames == InitNames /\ [][NextNames]_vars

\* The aliases of node n in declared order: those of the override when it
\* has some, else the static ones.
DeclaredAliases(n) ==
  LET s == snapshots[commander[n].name] IN
  IF s # << >> /\ Has(s[1].override, "aliases") THEN s[1].override.aliases
  ELSE commander[n]._aliases

AliasEnabled(entry) == ~(Has(entry[2], "filter") /\ entry[2].filter = FALSE)

PlainOption(text, hidden) == [syntax |-> "--" \o text, text |-> text, hidden |-> hidden]

\* Registries that differ in shape and in the hidden flag of each command; every
\* command has a visible and a hidden option.
InitFilter ==
  \E p \in Forests, hidden \in [Nodes -> BOOLEAN] :
    LET reg == [n \in Nodes |->
                  [Registry(p, [m \in Nodes |-> Letters[m]])[n]
                     EXCEPT !.config = Obj1("hidden", hidden[n]),
                            !._options = << <<"x", PlainOption("x", FALSE)>>,
                                            <<"y", PlainOption("y", TRUE)>> >>]]
    IN /\ commander = reg
       /\ snapshots = NoSnapshots(reg)
       /\ session = [authority |-> 0, locales |-> << >>]
       /\ call = NoCall
       /\ result = << >>
       /\ NoFiles

NextFilter == CallAll \/ CallSingle \/ CallRelated \/ CallFilter \/ Return

SpecFilter == InitFilter /\ [][NextFilter]_vars

\* C9: filter keeps a top-level command exactly when it is not hidden, or
\* showHidden, or isDetailView; so the hidden command single returned is kept
\* by filter([cmd], false, true).
C9_TopLevelFilter ==
  call.op = "filter" =>
    /\ \A i \in DOMAIN call.commands :
         (\E j \in DOMAIN result : result[j].node = call.commands[i].node)
           <=> (~call.commands[i].hidden \/ call.showHidden \/ call.isDetailView)
    /\ Len(result) <= Len(call.commands)

\* single returned a hidden command, and the detail view keeps it.
C9_Witness ==
  /\ call.op = "filter"
  /\ call.from = "single"
  /\ ~call.showHidden
  /\ call.isDetailView
  /\ Len(call.commands) = 1
  /\ call.commands[1].hidden
  /\ Len(result) = 1
  /\ result[1].node = call.commands[1].node

\* ---------------------------------------------------------------- C10

\* Number of variants of an option.
MaxVariants == 2

\* A variant with a syntax and a description, one with neither, and one that
\* requires the highest authority.
Variant(kind, variantKey) ==
  IF kind = "full"
    THEN [value |-> variantKey, syntax |-> "-" \o variantKey, text |-> variantKey]
  ELSE IF kind = "bare" THEN [value |-> variantKey]
  ELSE [value |-> variantKey, syntax |-> "-" \o variantKey, text |-> variantKey,
        authority |-> MaxAuth]

WithKey(o, present, k, v) == IF present THEN Spread(o, Obj1(k, v)) ELSE o

\* Registries whose first command has the option format: with or without a
\* value key, a syntax, a description, an authority requirement and variants,
\* next to another option that ends up under the same name or not.
InitOptions ==
  \E hasValue \in BOOLEAN, hasSyntax \in BOOLEAN, hasText \in BOOLEAN,
     restricted \in BOOLEAN, hasVariants \in BOOLEAN,
     other \in {"none", "sameNameBefore", "sameNameAfter", "variantNameBefore"},
     a \in AuthLevels :
   \E keys \in DistinctSeqs({"json", "yaml", "toml"}, MaxVariants) :
    \E kinds \in [DOMAIN keys -> {"full", "bare", "restricted"}] :
     LET variants == [i \in DOMAIN keys |-> <<keys[i], Variant(kinds[i], keys[i])>>]
         format ==
           WithKey(WithKey(WithKey(WithKey(WithKey(Obj1("name", "format"),
             hasValue, "value", "json"),
             hasSyntax, "syntax", "--format"),
             hasText, "text", "Output format"),
             restricted, "authority", MaxAuth),
             hasVariants, "variants", variants)
         alt == [syntax |-> "-f", text |-> "alt",
                 name |-> IF other = "variantNameBefore" THEN "format.json" ELSE "format"]
         options ==
           IF other = "none" THEN << <<"format", format>> >>
           ELSE IF other = "sameNameAfter" THEN << <<"format", format>>, <<"alt", alt>> >>
           ELSE << <<"alt", alt>>, <<"format", format>> >>
         plain == Registry([n \in Nodes |-> 0], [n \in Nodes |-> Letters[n]])
     IN /\ (~hasVariants => keys = << >>)
        /\ commander = [plain EXCEPT ![1]._options = options]
        /\ snapshots = NoSnapshots(plain)
        /\ session = [authority |-> a, locales |-> << >>]
        /\ call = NoCall
        /\ result = << >>
        /\ NoFiles

SpecOptions == InitOptions /\ [][NextAll]_vars

\* The options of node n that buildOptions walks.
DeclaredOptions(n) == getEffectiveData(commander[n]).options

BaseName(entry) == IF Has(entry[2], "name") /\ entry[2].name # "" THEN entry[2].name ELSE entry[1]

VariantsOf(entry) == IF Has(entry[2], "variants") THEN entry[2].variants ELSE << >>

\* The option or variant o has a description or a syntax, and the caller has
\* the authority it requires.
Listable(o) ==
  /\ (Has(o, "text") /\ o.text # "") \/ (Has(o, "syntax") /\ o.syntax # "")
  /\ UserAuth >= (IF Has(o, "authority") THEN o.authority ELSE 0)

EntriesNamed(cmd, name) == {k \in DOMAIN cmd.options : cmd.options[k].name = name}

\* No other declared option, and no variant, ends up under the name.
OnlyFrom(entries, i, name) ==
  \A j \in DOMAIN entries :
    /\ (j # i => BaseName(entries[j]) # name)
    /\ \A v \in DOMAIN VariantsOf(entries[j]) :
         BaseName(entries[j]) \o "." \o VariantsOf(entries[j])[v][1] # name

\* C10 as stated: an option with variants and no value key yields one entry
\* per variant (that the inclusion rule of the options admits) and no entry
\* under its bare name.
C10_Original ==
  call.op = "all" =>
    \A cmd \in TreeCommands(result) :
      LET entries == DeclaredOptions(cmd.node) IN
      \A i \in DOMAIN entries :
        (VariantsOf(entries[i]) # << >> /\ ~Has(entries[i][2], "value")) =>
          /\ \A v \in DOMAIN VariantsOf(entries[i]) :
               Listable(VariantsOf(entries[i])[v][2]) =>
                 Cardinality(EntriesNamed(cmd,
                   BaseName(entries[i]) \o "." \o VariantsOf(entries[i])[v][1])) = 1
          /\ EntriesNamed(cmd, BaseName(entries[i])) = {}

\* C10, amended: an option that has a value key yields no entry under its bare
\* name, an option without one yields one when it is listable; every listable
\* variant yields exactly one entry named base.variantKey.
C10_VariantExpansion ==
  call.op = "all" =>
    \A cmd \in TreeCommands(result) :
      LET entries == DeclaredOptions(cmd.node) IN
      \A i \in DOMAIN entries :
        LET base == BaseName(entries[i]) IN
        /\ (Has(entries[i][2], "value") /\ OnlyFrom(entries, i, base))
             => EntriesNamed(cmd, base) = {}
        /\ (~Has(entries[i][2], "value") /\ Listable(entries[i][2]))
             => Cardinality(EntriesNamed(cmd, base)) = 1
        /\ \A v \in DOMAIN VariantsOf(entries[i]) :
             Listable(VariantsOf(entries[i])[v][2])
               => Cardinality(EntriesNamed(cmd, base \o "." \o VariantsOf(entries[i])[v][1])) = 1

\* The option format has a value key and the variants json and yaml: the
\* options are format.json and format.yaml.
C10_Witness ==
  /\ call.op = "all"
  /\ \E cmd \in TreeCommands(result) :
       /\ Len(DeclaredOptions(cmd.node)) = 1
       /\ Has(DeclaredOptions(cmd.node)[1][2], "value")
       /\ Has(DeclaredOptions(cmd.node)[1][2], "syntax")
       /\ Keys(VariantsOf(DeclaredOptions(cmd.node)[1])) = <<"json", "yaml">>
       /\ [k \in DOMAIN cmd.options |-> cmd.options[k].name] = <<"format.json", "format.yaml">>

\* ---------------------------------------------------------------- files

\* Number of concurrent calls on the cache files.
MaxWriters == 2
\* Number of write calls fs.writeFile needs for one buffer.
NumChunks == 2

Writers == 1..MaxWriters

\* The buffer of tag t, chunk by chunk.
Buffer(t) == [i \in 1..NumChunks |-> [by |-> t, part |-> i]]

\* What a write past the end of a file leaves in between.
Hole == [by |-> 0, part |-> 0]

\* existsSync(name)
Exists(name) == dir[name] # 0

\* What fs.readFile(name) reads now: <<>> when there is no such file
ReadFile(name) == IF Exists(name) THEN <<inodes[dir[name]]>> ELSE << >>

\* open(name, 'w'): the file is created empty, or truncated when it exists
OpenForWrite(name) ==
  IF Exists(name)
    THEN /\ inodes' = [inodes EXCEPT ![dir[name]] = << >>]
         /\ dir' = dir
    ELSE /\ inodes' = Append(inodes, << >>)
         /\ dir' = [dir EXCEPT ![name] = Len(inodes) + 1]

\* the inode the file descriptor opened by OpenForWrite(name) is on
OpenedInode(name) == IF Exists(name) THEN dir[name] ELSE Len(inodes) + 1

\* write(fd, chunk) at offset pos of the inode ino
WriteAt(content, pos, chunk) ==
  [i \in 1..(IF Len(content) > pos + 1 THEN Len(content) ELSE pos + 1) |->
     IF i = pos + 1 THEN chunk
     ELSE IF i <= Len(content) THEN content[i] ELSE Hole]

\* ---------------------------------------------------------------- safeWrite

\* The image file of Cache.getCommandListPath() and safeWrite's `${path}.tmp`.
ImagePath == "cmd_list.png"
TmpPath(path) == path \o ".tmp"

\* What the image file held before the writes: the buffer of tag 0.
OldImage == Buffer(0)

\* Cache.saveImageCache(path, data) by writer w, data being a Buffer:
\* safeWrite starts with fs.writeFile(tmp, data), which opens tmp.
SafeWriteOpen(w) ==
  /\ ~crashed
  /\ procs[w].pc = "idle"
  /\ OpenForWrite(TmpPath(ImagePath))
  /\ procs' = [procs EXCEPT ![w] = [pc |-> "write", fd |-> OpenedInode(TmpPath(ImagePath)),
                                    pos |-> 0]]
  /\ UNCHANGED <<crashed, ghost, xvars>>

\* fs.writeFile writes the next chunk of the buffer to its file descriptor
SafeWriteChunk(w) ==
  /\ ~crashed
  /\ procs[w].pc = "write"
  /\ procs[w].pos < NumChunks
  /\ inodes' = [inodes EXCEPT ![procs[w].fd] =
                  WriteAt(@, procs[w].pos, Buffer(w)[procs[w].pos + 1])]
  /\ procs' = [procs EXCEPT ![w].pos = @ + 1]
  /\ UNCHANGED <<dir, crashed, ghost, xvars>>

\* fs.writeFile resolves; if (existsSync(path)) ...
SafeWriteExists(w) ==
  /\ ~crashed
  /\ procs[w].pc = "write"
  /\ procs[w].pos = NumChunks
  /\ procs' = [procs EXCEPT ![w].pc = IF Exists(ImagePath) THEN "unlink" ELSE "rename"]
  /\ UNCHANGED <<dir, inodes, crashed, ghost, xvars>>

\* await fs.unlink(path).catch(() => {})
SafeWriteUnlink(w) ==
  /\ ~crashed
  /\ procs[w].pc = "unlink"
  /\ dir' = [dir EXCEPT ![ImagePath] = 0]
  /\ procs' = [procs EXCEPT ![w].pc = "rename"]
  /\ UNCHANGED <<inodes, crashed, ghost, xvars>>

\* await fs.rename(tmp, path): ENOENT when tmp is gone, and safeWrite's catch
SafeWriteRename(w) ==
  /\ ~crashed
  /\ procs[w].pc = "rename"
  /\ IF Exists(TmpPath(ImagePath))
       THEN /\ dir' = [dir EXCEPT ![ImagePath] = dir[TmpPath(ImagePath)],
                                  ![TmpPath(ImagePath)] = 0]
            /\ procs' = [procs EXCEPT ![w].pc = "done"]
            /\ ghost' = [ghost EXCEPT !.renames = Append(@, w)]
       ELSE /\ dir' = dir
            /\ procs' = [procs EXCEPT ![w].pc = "catch"]
            /\ ghost' = ghost
  /\ UNCHANGED <<inodes, crashed, xvars>>

\* catch (err) { if (existsSync(tmp)) await fs.unlink(tmp).catch(() => {}); throw err }
\* and saveImageCache's catch, which logs and returns false
SafeWriteCatch(w) ==
  /\ ~crashed
  /\ procs[w].pc = "catch"
  /\ dir' = [dir EXCEPT ![TmpPath(ImagePath)] = 0]
  /\ procs' = [procs EXCEPT ![w].pc = "failed"]
  /\ UNCHANGED <<inodes, crashed, ghost, xvars>>

\* The process is interrupted while a write is in progress.
Crash ==
  /\ ~crashed
  /\ \E w \in Writers : procs[w].pc \notin {"idle", "done", "failed"}
  /\ crashed' = TRUE
  /\ UNCHANGED <<dir, inodes, procs, ghost, xvars>>

NoExtract ==
  /\ commander = << >>
  /\ snapshots = << >>
  /\ session = [authority |-> 0, locales |-> << >>]
  /\ call = NoCall
  /\ result = << >>

\* The image file exists with its old content, or does not exist yet.
InitSafeWrite ==
  /\ NoExtract
  /\ \E old \in BOOLEAN :
       /\ dir = [name \in {ImagePath, TmpPath(ImagePath)} |->
                   IF old /\ name = ImagePath THEN 1 ELSE 0]
       /\ inodes = IF old THEN <<OldImage>> ELSE << >>
  /\ procs = [w \in Writers |-> [pc |-> "idle"]]
  /\ crashed = FALSE
  /\ ghost = [old |-> Exists(ImagePath), renames |-> << >>]

NextSafeWrite ==
  \/ \E w \in Writers : SafeWriteOpen(w)
  \/ \E w \in Writers : SafeWriteChunk(w)
  \/ \E w \in Writers : SafeWriteExists(w)
  \/ \E w \in Writers : SafeWriteUnlink(w)
  \/ \E w \in Writers : SafeWriteRename(w)
  \/ \E w \in Writers : SafeWriteCatch(w)
  \/ Crash

SpecSafeWrite == InitSafeWrite /\ [][NextSafeWrite]_vars

\* A reader of the final name sees no file or a complete buffer.
NothingPartial ==
  ReadFile(ImagePath) \in {<< >>, <<OldImage>>} \cup {<<Buffer(w)>> : w \in Writers}

\* Writer w has written its temporary file and its rename has not completed.
BeforeRename(w) == procs[w].pc \in {"unlink", "rename"} \/ (procs[w].pc = "write" /\ procs[w].pos = NumChunks)

\* C2: when the process is interrupted after a write has written its
\* temporary file and before its rename, the file that was under the final
\* name is still there with its old content; and the final name never shows
\* a partially written file. (Stated of a write that runs alone.)
C2_CrashSafe ==
  /\ \A w \in Writers :
       (/\ crashed
        /\ ghost.old
        /\ BeforeRename(w)
        /\ \A v \in Writers \ {w} : procs[v].pc = "idle")
         => ReadFile(ImagePath) = <<OldImage>>
  /\ (\E w \in Writers : \A v \in Writers \ {w} : procs[v].pc = "idle") => NothingPartial

\* C3: two writers of one file both complete without error, the file ends up
\* with the complete buffer of the writer that renamed last, and the final
\* name never shows a partial or mixed buffer.
C3_HarmlessRace ==
  /\ \A w \in Writers : procs[w].pc \notin {"catch", "failed"}
  /\ NothingPartial
  /\ (\A w \in Writers : procs[w].pc = "done")
       => ReadFile(ImagePath) = <<Buffer(ghost.renames[Len(ghost.renames)])>>

\* ---------------------------------------------------------------- FileStore

\* Path and key strings are sequences of characters; these are the characters
\* the models use.  /[^a-zA-Z0-9\-_\.]/g replaces every other character by '_'.
ValidChars == {"a", "b", "m", "h", "g", "_", ".", "-"}

Sanitize(s) == [i \in DOMAIN s |-> IF s[i] \in ValidChars THEN s[i] ELSE "_"]

\* s.startsWith(p)
StartsWith(s, p) == Len(p) <= Len(s) /\ SubSeq(s, 1, Len(p)) = p

\* f.endsWith('.png'), the extension being one character of the model
EndsWithPng(f) == Len(f) >= 1 /\ f[Len(f)] = ".png"

\* join(this.cacheDir, `${key}.png`), relative to the cache directory
CachePath(key) == key \o <<".png">>

\* The cache keys the menu command saves under: prefix, '_' and a hash.
StoreKeys == { <<"a", "_", "h">>, <<"a", "_", "b", "_", "h">>, <<"b", "_", "g">> }

\* The command names clearCache is called with; << >> is no name.
StoreScopes == { << >>, <<"a">> }

Clients == 1..MaxWriters

\* The number of FileStore calls made in one behaviour.
MaxCalls == 3

\* The buffer a client saves: the image it rendered.
StoreBuffers(c) == {Buffer(c)}

\* The cache directory does not exist while dir has no entry at all.
DirExists == DOMAIN dir # {}

\* a file of that name exists in the cache directory
StoreExists(name) == name \in DOMAIN dir /\ dir[name] # 0

\* FileStore.getCache(key): the file's content, or null (<< >>) when readFile throws
getCache(key) == IF StoreExists(CachePath(key)) THEN <<inodes[dir[CachePath(key)]]>> ELSE << >>

\* promises.readdir(this.cacheDir).catch(() => []): the files of the cache
\* directory, not those of the directory above it
Readdir == IF DirExists THEN {name \in DOMAIN dir : dir[name] # 0 /\ name[1] # ".."} ELSE {}

\* clearCache's filter on the listing, pattern being the sanitized name or ''
ClearTargets_ScopedOnly(files, cmdName) ==
  {f \in files : EndsWithPng(f) /\ Sanitize(cmdName) # << >>
                   /\ StartsWith(f, Sanitize(cmdName) \o <<"_">>)}

ClearTargets(files, cmdName) ==
  {f \in files : EndsWithPng(f) /\ (IF Sanitize(cmdName) # << >>
                                      THEN StartsWith(f, Sanitize(cmdName) \o <<"_">>)
                                      ELSE TRUE)}

\* An inode no name and no open file refers to can be used again.
InodeOpen(i) == \E c \in DOMAIN procs : procs[c].pc = "write" /\ procs[c].fd = i
InodeLinked(i) == \E name \in DOMAIN dir : dir[name] = i
FreeInodes == {i \in 1..Len(inodes) : ~InodeOpen(i) /\ ~InodeLinked(i)}
NewInode == IF FreeInodes # {} THEN CHOOSE i \in FreeInodes : \A j \in FreeInodes : i <= j
            ELSE Len(inodes) + 1

\* The saves and clears in progress that act on key.
Saving(c, key) == procs[c].pc \in {"open", "write"} /\ procs[c].key = key
Clearing(c) == procs[c].pc = "unlink"
Undisturbed(c, key) == \A d \in Clients \ {c} : ~Saving(d, key) /\ ~Clearing(d)

Unknown == [known |-> FALSE, val |-> << >>]
Known(v) == [known |-> TRUE, val |-> v]

\* A save or clear that begins disturbs the saves and clears in progress on its keys.
Disturb(ps, keys) ==
  [d \in DOMAIN ps |->
     IF ps[d].pc \in {"open", "write"} /\ ps[d].key \in keys THEN [ps[d] EXCEPT !.clean = FALSE]
     ELSE IF ps[d].pc = "unlink" THEN [ps[d] EXCEPT !.touched = @ \cup keys]
     ELSE ps[d]]

\* FileStore.saveCache(key, buffer) by client c begins:
\* await promises.mkdir(dirname(path), { recursive: true })
SaveCacheMkdir(c, key, buffer) ==
  /\ procs[c].pc = "idle"
  /\ ghost.calls < MaxCalls
  /\ dir' = IF DirExists THEN dir ELSE [name \in {CachePath(k) : k \in StoreKeys} |-> 0]
  /\ procs' = [Disturb(procs, {key}) EXCEPT
                 ![c] = [pc |-> "open", key |-> key, buffer |-> buffer, fd |-> 0, pos |-> 0,
                         clean |-> Undisturbed(c, key)]]
  /\ ghost' = [ghost EXCEPT !.expect[key] = Unknown, !.calls = @ + 1]
  /\ UNCHANGED <<inodes, crashed, xvars>>

\* promises.writeFile(path, buffer) opens the file itself: created or truncated
SaveCacheOpen(c) ==
  /\ procs[c].pc = "open"
  /\ LET name == CachePath(procs[c].key)
         ino == IF StoreExists(name) THEN dir[name] ELSE NewInode
     IN /\ dir' = [dir EXCEPT ![name] = ino]
        /\ inodes' = IF ino > Len(inodes) THEN Append(inodes, << >>)
                     ELSE [inodes EXCEPT ![ino] = << >>]
        /\ procs' = [procs EXCEPT ![c].pc = "write", ![c].fd = ino]
  /\ UNCHANGED <<crashed, ghost, xvars>>

\* writeFile writes the next chunk of the buffer
SaveCacheChunk(c) ==
  /\ procs[c].pc = "write"
  /\ procs[c].pos < Len(procs[c].buffer)
  /\ inodes' = [inodes EXCEPT ![procs[c].fd] =
                  WriteAt(@, procs[c].pos, procs[c].buffer[procs[c].pos + 1])]
  /\ procs' = [procs EXCEPT ![c].pos = @ + 1]
  /\ UNCHANGED <<dir, crashed, ghost, xvars>>

\* writeFile closes the file and saveCache resolves
SaveCacheDone(c) ==
  /\ procs[c].pc = "write"
  /\ procs[c].pos = Len(procs[c].buffer)
  /\ procs' = [procs EXCEPT ![c] = [pc |-> "idle"]]
  /\ inodes' = IF InodeLinked(procs[c].fd)
                  \/ \E d \in Clients \ {c} : procs[d].pc = "write" /\ procs[d].fd = procs[c].fd
                 THEN inodes
                 ELSE [inodes EXCEPT ![procs[c].fd] = << >>]
  /\ ghost' = IF procs[c].clean
                THEN [ghost EXCEPT !.expect[procs[c].key] = Known(<<procs[c].buffer>>)]
                ELSE ghost
  /\ UNCHANGED <<dir, crashed, xvars>>

\* FileStore.getCache(key) by client c
CallGetCache(c, key) ==
  /\ procs[c].pc = "idle"
  /\ ghost.calls < MaxCalls
  /\ result' = [op |-> "getCache", key |-> key, value |-> getCache(key)]
  /\ ghost' = [ghost EXCEPT !.calls = @ + 1]
  /\ UNCHANGED <<commander, snapshots, session, call, dir, inodes, procs, crashed>>

\* FileStore.clearCache(cmdName) by client c begins: readdir and the filter
ClearCacheReaddir(c, cmdName) ==
  /\ procs[c].pc = "idle"
  /\ ghost.calls < MaxCalls
  /\ LET affected == {k \in StoreKeys : CachePath(k) \in
                        ClearTargets({CachePath(j) : j \in StoreKeys}, cmdName)}
     IN /\ procs' = [Disturb(procs, affected) EXCEPT
                       ![c] = [pc |-> "unlink", cmdName |-> cmdName,
                               files |-> ClearTargets(Readdir, cmdName),
                               touched |-> {k \in affected :
                                              \E d \in Clients \ {c} : Saving(d, k)}]]
        /\ ghost' = [ghost EXCEPT !.expect =
                       [k \in StoreKeys |-> IF k \in affected THEN Unknown ELSE @[k]],
                                  !.calls = @ + 1]
  /\ UNCHANGED <<dir, inodes, crashed, xvars>>

\* one of the promises.unlink(join(this.cacheDir, f)).catch(() => {}) settles
ClearCacheUnlink(c) ==
  /\ procs[c].pc = "unlink"
  /\ \E f \in procs[c].files :
       /\ procs' = [procs EXCEPT ![c].files = @ \ {f}]
       /\ dir' = [dir EXCEPT ![f] = 0]
       /\ inodes' = IF dir[f] # 0 /\ ~InodeOpen(dir[f])
                      THEN [inodes EXCEPT ![dir[f]] = << >>]
                      ELSE inodes
  /\ UNCHANGED <<crashed, ghost, xvars>>

\* Promise.all resolves and clearCache returns
ClearCacheDone(c) ==
  /\ procs[c].pc = "unlink"
  /\ procs[c].files = {}
  /\ procs' = [procs EXCEPT ![c] = [pc |-> "idle"]]
  /\ ghost' = IF Sanitize(procs[c].cmdName) = << >>
                THEN [ghost EXCEPT !.expect =
                        [k \in StoreKeys |-> IF k \in procs[c].touched THEN @[k]
                                             ELSE Known(<< >>)]]
                ELSE ghost
  /\ UNCHANGED <<dir, inodes, crashed, xvars>>

\* The cache directory does not exist yet, or exists and is empty.
InitStore ==
  /\ NoExtract
  /\ \E exists \in BOOLEAN :
       dir = IF exists THEN [name \in {CachePath(k) : k \in StoreKeys} |-> 0] ELSE << >>
  /\ inodes = << >>
  /\ procs = [c \in Clients |-> [pc |-> "idle"]]
  /\ crashed = FALSE
  /\ ghost = [expect |-> [k \in StoreKeys |-> Unknown], calls |-> 0]

NextStore ==
  \/ \E c \in Clients, key \in StoreKeys : \E buffer \in StoreBuffers(c) :
       SaveCacheMkdir(c, key, buffer)
  \/ \E c \in Clients : SaveCacheOpen(c)
  \/ \E c \in Clients : SaveCacheChunk(c)
  \/ \E c \in Clients : SaveCacheDone(c)
  \/ \E c \in Clients, key \in StoreKeys : CallGetCache(c, key)
  \/ \E c \in Clients, cmdName \in StoreScopes : ClearCacheReaddir(c, cmdName)
  \/ \E c \in Clients : ClearCacheUnlink(c)
  \/ \E c \in Clients : ClearCacheDone(c)

SpecStore == InitStore /\ [][NextStore]_vars

\* C6: once a saveCache(k, bytes) that no other save or clear of k overlapped
\* has completed, getCache(k) returns exactly bytes until a save or clear of k
\* begins; once a clearCache() without a name has completed, getCache(k)
\* returns null for every key no save overlapped, until a save of k begins.
C6_RoundTrip ==
  \A k \in StoreKeys : ghost.expect[k].known => getCache(k) = ghost.expect[k].val

\* A saved buffer is read back while another key has been cleared to null.
C6_Witness ==
  /\ result # << >>
  /\ result.op = "getCache"
  /\ ghost.expect[result.key].known
  /\ result.value = <<Buffer(1)>>
  /\ getCache(result.key) = result.value
  /\ \E k \in StoreKeys : ghost.expect[k] = Known(<< >>) /\ StoreExists(CachePath(result.key))

\* ---------------------------------------------------------------- generateCacheKey

\* The longest command list a key is generated for.
MaxCommands == 2

\* The fields of config that generateCacheKey copies into what it hashes.
RenderFields == {"padding", "radius", "fontSize", "titleSize", "primary", "secondary",
                 "bgColor", "textColor", "header", "footer"}

\* createHash('md5').update(text).digest('hex').substring(0, 12): the digest
\* stands for the text it is taken of, one character of the key.
Md5Hex12(text) == [md5 |-> text]

\* cmd => ({ name, desc, group, options: cmd.options?.length || 0, subs: cmd.subs?.length || 0 })
KeyEntry(cmd) ==
  [name |-> cmd.name, desc |-> cmd.desc, group |-> cmd.group,
   options |-> Len(cmd.options),
   subs |-> IF cmd.subs = Undefined THEN 0 ELSE Len(cmd.subs[1])]

\* the config object that is hashed, glassBlur copied into it as well
ConfigPart_WithGlassBlur(config) ==
  [f \in (RenderFields \cup {"glassBlur"}) \cap DOMAIN config |-> config[f]]

\* { padding: config.padding, ..., footer: config.footer } as JSON.stringify
\* writes it: a field whose value is undefined is left out
ConfigPart(config) == [f \in RenderFields \cap DOMAIN config |-> config[f]]

\* 'menu'
MenuPrefix == <<"m", "e", "n", "u">>

\* The result of a call: the value returned, or the TypeError thrown.
Returned(v) == [threw |-> FALSE, value |-> v]
TypeError == [threw |-> TRUE, value |-> << >>]

\* FileStore.generateCacheKey(commands, config, cmdName); cmdName << >> is
\* undefined or ''.  A command's name is an array of NameItems, which has no
\* replace method.
generateCacheKey(commands, config, cmdName) ==
  IF Sanitize(cmdName) = << >> /\ Len(commands) = 1
    THEN TypeError
    ELSE LET prefix == IF Sanitize(cmdName) # << >> THEN Sanitize(cmdName) ELSE MenuPrefix
             hash == Md5Hex12([commands |-> [i \in DOMAIN commands |-> KeyEntry(commands[i])],
                               config |-> ConfigPart(config)])
         IN Returned(prefix \o <<"_", hash>>)

\* The commands keys are generated for, as Extract builds them.
KeyCommand(seg, desc, subs) ==
  [node |-> 0, group |-> "Other",
   name |-> <<[name |-> <<seg>>, enabled |-> TRUE, isDefault |-> TRUE]>>,
   authority |-> 0, hidden |-> FALSE, desc |-> desc, usage |-> "", examples |-> "",
   options |-> << >>, subs |-> subs]

KeyCommands == {KeyCommand("a", "first", Undefined), KeyCommand("b", "", Defined(<< >>))}

KeyCommandLists == UNION {[1..n -> KeyCommands] : n \in 0..MaxCommands}

\* The render configs: some fields that are hashed and some that are not.
\* A value is a number or a string.
KeyConfigValues ==
  [padding |-> {[num |-> 16], [num |-> 24]},
   glassBlur |-> {[num |-> 0], [num |-> 8]},
   fontUrl |-> {[str |-> "file:///font.ttf"]}]

KeyConfigs ==
  UNION {{config \in [fields -> UNION {KeyConfigValues[f] : f \in fields}] :
            \A f \in fields : config[f] \in KeyConfigValues[f]} :
         fields \in SUBSET DOMAIN KeyConfigValues}

KeyScopes == { << >>, <<"a", " ", "b">> }

\* A call of generateCacheKey; result keeps the calls, and two are compared.
CallGenerateCacheKey(commands, config, cmdName) ==
  /\ Len(result) < 2
  /\ result' = Append(result,
                 [op |-> "generateCacheKey", commands |-> commands, config |-> config,
                  cmdName |-> cmdName, ret |-> generateCacheKey(commands, config, cmdName)])
  /\ UNCHANGED <<commander, snapshots, session, call, fvars>>

InitKey ==
  /\ NoExtract
  /\ NoFiles

NextKey ==
  \E commands \in KeyCommandLists, config \in KeyConfigs, cmdName \in KeyScopes :
    CallGenerateCacheKey(commands, config, cmdName)

SpecKey == InitKey /\ [][NextKey]_vars

Range(s) == {s[i] : i \in DOMAIN s}

\* C4: two calls with the same config and scope name, whose command lists
\* hold the same entries in another order or with entries repeated, and
\* which both return, return the same key.
C4_OrderAndDuplicateIndependent ==
  \A i, j \in DOMAIN result :
    (/\ result[i].config = result[j].config
     /\ result[i].cmdName = result[j].cmdName
     /\ Range(result[i].commands) = Range(result[j].commands)
     /\ ~result[i].ret.threw
     /\ ~result[j].ret.threw)
      => result[i].ret = result[j].ret

\* The configs agree on every whitelisted field.
AgreeOnRenderFields(c1, c2) ==
  \A f \in RenderFields :
    /\ f \in DOMAIN c1 <=> f \in DOMAIN c2
    /\ f \in DOMAIN c1 => c1[f] = c2[f]

\* C5: two calls with the same command list and scope name, whose configs
\* agree on all whitelisted render fields, have the same outcome: the same key.
C5_WhitelistIndependent ==
  \A i, j \in DOMAIN result :
    (/\ result[i].commands = result[j].commands
     /\ result[i].cmdName = result[j].cmdName
     /\ AgreeOnRenderFields(result[i].config, result[j].config))
      => result[i].ret = result[j].ret

\* Two configs that differ in glassBlur and agree on padding give one key.
C5_Witness ==
  /\ Len(result) = 2
  /\ result[1].commands = result[2].commands
  /\ Len(result[1].commands) = 2
  /\ result[1].cmdName = result[2].cmdName
  /\ "padding" \in DOMAIN result[1].config
  /\ AgreeOnRenderFields(result[1].config, result[2].config)
  /\ "glassBlur" \in DOMAIN result[1].config
  /\ "glassBlur" \in DOMAIN result[2].config
  /\ result[1].config.glassBlur # result[2].config.glassBlur
  /\ ~result[1].ret.threw
  /\ result[1].ret = result[2].ret

\* ---------------------------------------------------------------- C11

\* C11: a cache read returns null when the file is missing or holds a payload
\* of length zero: getCache never returns a buffer of length zero.
C11_ReadsMissUniformly ==
  (result # << >> /\ result.op = "getCache")
    => (result.value = << >> \/ Len(result.value[1]) > 0)

\* ---------------------------------------------------------------- menu

\* The number of menu requests in one behaviour.
MaxRequests == 2

\* A command name as the string the user types: its segments joined by dots.
Chars(name) ==
  [i \in 1..(2 * Len(name) - 1) |-> IF i % 2 = 1 THEN name[(i + 1) \div 2] ELSE "."]

\* makePath('commands', locale): a file of the directory above the cache directory
CommandsFile == <<"..", "commands.json">>

\* The files as a value: the directory and the inodes.
Files == [dir |-> dir, inodes |-> inodes]

FileIn(fs, name) == name \in DOMAIN fs.dir /\ fs.dir[name] # 0

\* readFile(name) on the files fs: << >> when it throws
ContentIn(fs, name) == IF FileIn(fs, name) THEN <<fs.inodes[fs.dir[name]]>> ELSE << >>

\* mkdir and writeFile(name, content), whole
WriteWhole(fs, name, content) ==
  IF FileIn(fs, name)
    THEN [fs EXCEPT !.inodes[fs.dir[name]] = content]
    ELSE LET free == {i \in 1..Len(fs.inodes) : \A n \in DOMAIN fs.dir : fs.dir[n] # i}
             ino == IF free # {} THEN CHOOSE i \in free : \A j \in free : i <= j
                    ELSE Len(fs.inodes) + 1
         IN [dir |-> (name :> ino) @@ fs.dir,
             inodes |-> IF ino > Len(fs.inodes) THEN Append(fs.inodes, content)
                        ELSE [fs.inodes EXCEPT ![ino] = content]]

\* unlink of every file in names, whole
UnlinkAll(fs, names) ==
  [dir |-> [n \in DOMAIN fs.dir |-> IF n \in names THEN 0 ELSE fs.dir[n]],
   inodes |-> [i \in DOMAIN fs.inodes |->
                 IF \E n \in names : FileIn(fs, n) /\ fs.dir[n] = i THEN << >>
                 ELSE fs.inodes[i]]]

\* FileStore.clearCache(cmdName), whole, on the files fs
clearCache(fs, cmdName) ==
  UnlinkAll(fs, ClearTargets({n \in DOMAIN fs.dir : fs.dir[n] # 0 /\ n[1] # ".."}, cmdName))

\* nameItem?.name === nameOrAlias && nameItem?.enabled, for some item of cmd.name
NameMatches(cmd, nameOrAlias) ==
  \E i \in DOMAIN cmd.name : cmd.name[i].name = nameOrAlias /\ cmd.name[i].enabled

\* findCommand(commands, nameOrAlias): each command and then its subs, in order
findCommand(commands, nameOrAlias) ==
  IF nameOrAlias = << >> THEN << >>
  ELSE LET candidates == SelectSeq(FlatMap(LAMBDA cmd : <<cmd>> \o SubsOf(cmd), commands),
                                   LAMBDA cmd : NameMatches(cmd, nameOrAlias))
       IN IF candidates = << >> THEN << >> ELSE <<candidates[1]>>

\* The value of an expression that is computed once and then named: the
\* element of the one-element set S.
TheOne(S) == CHOOSE v \in S : TRUE

\* getCommands with config.source = 'inline', commands being what related or
\* all returned
getCommandsInline(fs, cmdName, showHidden, commands) ==
  [commands |-> IF commands = <<Thrown>> THEN << >>
                ELSE filter(commands, showHidden, cmdName # << >>),
   files |-> fs]

\* getCommands with config.source = 'file': loaded is the content of the
\* commands file, extracted what all() returns when it is called, live what
\* single(cmdName) returns when it is called
getCommandsFile(fs, cmdName, showHidden, diskFails, loaded, extracted, live) ==
  LET allCommands == IF loaded # << >> THEN loaded[1] ELSE extracted
      saveAll == loaded = << >> /\ allCommands # << >>
      fs1 == IF saveAll THEN WriteWhole(fs, CommandsFile, allCommands) ELSE fs
      found == findCommand(allCommands, cmdName)
  IN IF allCommands = <<Thrown>> \/ (saveAll /\ diskFails)
       THEN [commands |-> << >>, files |-> fs]
     ELSE IF cmdName = << >>
       THEN [commands |-> filter(allCommands, showHidden, FALSE), files |-> fs1]
     ELSE IF found # << >>
       THEN [commands |-> filter(found, showHidden, TRUE), files |-> fs1]
     ELSE IF live = << >> \/ live = <<Thrown>> \/ diskFails
       THEN [commands |-> << >>, files |-> fs1]
     ELSE [commands |-> filter(live, showHidden, TRUE),
           files |-> WriteWhole(fs1, CommandsFile, Append(allCommands, live[1]))]

\* getCommands(cmdName, session, locale, showHidden) on the files fs: the list
\* it returns and the files it leaves.  A write that fails throws, and the
\* catch returns [].
getCommands(fs, cmdName, showHidden, source, diskFails) ==
  IF source = "inline"
    THEN TheOne({getCommandsInline(fs, cmdName, showHidden, commands) :
                   commands \in {IF cmdName # << >> THEN related(cmdName) ELSE all}})
    ELSE TheOne({getCommandsFile(fs, cmdName, showHidden, diskFails,
                                 loaded, extracted, live) :
                   loaded \in {ContentIn(fs, CommandsFile)},
                   extracted \in {all},
                   live \in {single(cmdName)}})

\* What the menu command answers with.
NotFound == [kind |-> "text", text |-> "not found"]
RenderFailed == [kind |-> "text", text |-> "render failed"]
Image(buffer) == [kind |-> "image", buffer |-> buffer]

\* toImage(render.build(renderConfig, commands, cmd)): the image of these
\* commands, a buffer of one chunk
Rendered(commands, cmd) == <<[commands |-> commands, cmd |-> cmd]>>

\* The render config of the plugin: the defaults of its schema that matter here.
RenderConfig == [padding |-> [num |-> 16], glassBlur |-> [num |-> 0]]

\* The menu action from the cache lookup on (index.ts, from line 570): got is
\* what getCommands returned and cacheKey what generateCacheKey did.
menuRender(cmd, clear, diskFails, got, cacheKey) ==
  LET cached == ContentIn(got.files, CachePath(cacheKey.value))
      buffer == Rendered(got.commands, cmd)
  IN IF cacheKey.threw
       THEN [ret |-> RenderFailed, commands |-> got.commands, files |-> got.files]
     ELSE IF ~clear /\ cached # << >>
       THEN [ret |-> Image(cached[1]), commands |-> got.commands, files |-> got.files]
     ELSE IF diskFails
       THEN [ret |-> RenderFailed, commands |-> got.commands, files |-> got.files]
     ELSE [ret |-> Image(buffer), commands |-> got.commands,
           files |-> WriteWhole(got.files, CachePath(cacheKey.value), buffer)]

\* The menu action once getCommands has returned got.
menuAnswer(cmd, clear, enableCache, diskFails, got) ==
  IF cmd # << >> /\ got.commands = << >>
    THEN [ret |-> NotFound, commands |-> got.commands, files |-> got.files]
  ELSE IF ~enableCache
    THEN [ret |-> Image(Rendered(got.commands, cmd)), commands |-> got.commands,
          files |-> got.files]
  ELSE TheOne({menuRender(cmd, clear, diskFails, got, cacheKey) :
                 cacheKey \in {generateCacheKey(got.commands, RenderConfig, Chars(cmd))}})

\* The action of the menu command for the request in call: its answer and
\* the files it leaves.
menu(source, enableCache, diskFails) ==
  TheOne({menuAnswer(call.cmd, call.clear, enableCache, diskFails, got) :
            got \in {getCommands(fs, call.cmd, call.hidden, source, diskFails) :
                       fs \in {IF enableCache /\ call.clear
                                 THEN clearCache(Files, Chars(call.cmd)) ELSE Files}}})

\* The names a menu is asked for: none, those of the commands and an unknown one.
MenuNames == {<< >>, <<"e">>} \cup {commander[n].name : n \in Nodes}

\* A user sends `menu [cmd]` with the options -H and -c.
ReceiveMenu(authority, cmd, hidden, clear) ==
  /\ call = NoCall
  /\ ghost.requests < MaxRequests
  /\ session' = [authority |-> authority, locales |-> << >>]
  /\ call' = [op |-> "menu", cmd |-> cmd, hidden |-> hidden, clear |-> clear]
  /\ result' = << >>
  /\ ghost' = [ghost EXCEPT !.requests = @ + 1]
  /\ UNCHANGED <<commander, snapshots, dir, inodes, procs, crashed>>

\* The action of the menu command runs; config.source and config.enableCache
\* are those of the plugin at that time, and the disk takes writes or not.
MenuAction(source, enableCache, diskFails) ==
  /\ call.op = "menu"
  /\ \E answer \in {menu(source, enableCache, diskFails)} :
        /\ result' = [op |-> "menu", cmd |-> call.cmd, source |-> source,
                      enableCache |-> enableCache, diskFails |-> diskFails,
                      commands |-> answer.commands, ret |-> answer.ret]
        /\ dir' = answer.files.dir
        /\ inodes' = answer.files.inodes
  /\ call' = NoCall
  /\ UNCHANGED <<commander, snapshots, session, procs, crashed, ghost>>

\* A command a with the child a.b and the other commands at the top level;
\* each command requires authority 0 or 1.
InitMenu ==
  \E auth \in [Nodes -> {0, 1}] :
    LET reg == [n \in Nodes |->
                  [Registry([m \in Nodes |-> IF m = 2 THEN 1 ELSE 0],
                            [m \in Nodes |-> Letters[m]])[n]
                     EXCEPT !.config = Obj1("authority", auth[n])]]
    IN /\ commander = reg
       /\ snapshots = NoSnapshots(reg)
       /\ session = [authority |-> 0, locales |-> << >>]
       /\ call = NoCall
       /\ result = << >>
       /\ dir = << >>
       /\ inodes = << >>
       /\ procs = << >>
       /\ crashed = FALSE
       /\ ghost = [requests |-> 0]

NextMenu ==
  \/ \E authority \in AuthLevels, cmd \in MenuNames, hidden \in BOOLEAN, clear \in BOOLEAN :
       ReceiveMenu(authority, cmd, hidden, clear)
  \/ \E source \in {"file", "inline"}, enableCache \in BOOLEAN, diskFails \in BOOLEAN :
       MenuAction(source, enableCache, diskFails)

SpecMenu == InitMenu /\ [][NextMenu]_vars

\* C12: when the image is rendered and saving it to the cache fails, the
\* request answers with the rendered image.
C12_WriteFailureHarmless ==
  (/\ result # << >>
   /\ result.op = "menu"
   /\ result.source = "inline"
   /\ result.diskFails
   /\ result.cmd # << >> => result.commands # << >>
   /\ Len(result.commands) # 1 \/ result.cmd # << >>)
    => result.ret.kind = "image"

\* ---------------------------------------------------------------- faults

\* Extract.getEffectiveData(command) is called on a command of the registry.
CallGetEffectiveData ==
  \E n \in Nodes :
    /\ call = NoCall
    /\ call' = [op |-> "getEffectiveData", node |-> n]
    /\ result' = getEffectiveData(commander[n])
    /\ UNCHANGED <<commander, snapshots, session, fvars>>

\* The snapshots of a command that the models of faults use: without its
\* initial part, without its override part, with both parts empty, and whole.
FaultySnapshots(command) ==
  [noInitial |-> <<[override |-> EmptyObj]>>,
   noOverride |-> <<[initial |-> [config |-> command.config, options |-> command._options]]>>,
   noParts |-> <<[initial |-> EmptyObj, override |-> EmptyObj]>>,
   whole |-> Snapshot(command, EmptyObj)]

\* The faults a command may have: one of these snapshots, or a usage function.
Faults == {"noInitial", "noOverride", "noParts", "whole", "usage"}

\* A _usage function that throws when it is called.
ThrowingUsage == <<[kind |-> "throws", val |-> ""]>>

\* Registries of every shape in which one command has a snapshot, malformed or
\* not, or a usage function that throws; every command is open to the caller.
InitFaults ==
  \E p \in Forests, f \in Nodes, fault \in Faults :
    LET reg == [n \in Nodes |->
                  [Registry(p, [m \in Nodes |-> Letters[m]])[n]
                     EXCEPT !._usage = IF n = f /\ fault = "usage" THEN ThrowingUsage ELSE @]]
    IN /\ commander = reg
       /\ snapshots = [nm \in DOMAIN NoSnapshots(reg) |->
                         IF nm = reg[f].name /\ fault # "usage"
                           THEN FaultySnapshots(reg[f])[fault] ELSE << >>]
       /\ session = [authority |-> 0, locales |-> << >>]
       /\ call = NoCall
       /\ result = << >>
       /\ NoFiles

NextFaults == CallAll \/ CallSingle \/ CallGetEffectiveData \/ Return

SpecFaults == InitFaults /\ [][NextFaults]_vars

\* The commands whose build fails: their override resolution throws.
FailingNodes == {n \in Nodes : Throws(commander[n])}

\* C13: when the build of a node fails, the extraction call does not fail and
\* every command that is neither the node nor below it is in the output.
C13_FailureIsolated ==
  call.op = "all" =>
    /\ result # <<Thrown>>
    /\ \A n \in Nodes :
         (\A f \in FailingNodes : ~IsDescendantOrSelf(n, f)) => n \in TreeNodes(result)

\* C14: getEffectiveData returns for every command, whatever its snapshot.
C14_OverrideNeverRaises ==
  call.op = "getEffectiveData" => result # Thrown

\* ---------------------------------------------------------------- C15

\* The commands the stored keys were generated for, and the hashes of the keys.
StoreCommands == {<<"a">>, <<"a", "_", "b">>, <<"b">>}
StoreHashes == {"h", "g"}

\* The stored keys generateCacheKey returns for the command cmdName.
KeysOf(cmdName) ==
  {k \in StoreKeys : \E hash \in StoreHashes : k = Sanitize(cmdName) \o <<"_", hash>>}

\* C15: a step of clearCache(cmdName) with a name leaves what getCache
\* returns unchanged for every key generated for a different command.
C15_ScopedClear ==
  [][\A c \in Clients :
       (/\ procs[c].pc = "unlink"
        /\ procs[c].cmdName \in StoreCommands
        /\ procs'[c].pc = "unlink"
        /\ procs'[c].files # procs[c].files)
         => \A cmdName \in StoreCommands \ {procs[c].cmdName} :
              \A k \in KeysOf(cmdName) : getCache(k)' = getCache(k)]_vars

\* ---------------------------------------------------------------- C16

\* The prefix the key is to have: the sanitized scope name, else the sanitized
\* name of the only command, else 'menu'.
ExpectedPrefix(commands, cmdName) ==
  IF Sanitize(cmdName) # << >> THEN Sanitize(cmdName)
  ELSE IF Len(commands) = 1 THEN Sanitize(Chars(commands[1].name[1].name))
  ELSE MenuPrefix

\* C16: every call of generateCacheKey on extracted commands returns, and its
\* key is the expected prefix, '_' and the digest.
C16_KeyShape ==
  \A i \in DOMAIN result :
    /\ ~result[i].ret.threw
    /\ LET key == result[i].ret.value
           prefix == ExpectedPrefix(result[i].commands, result[i].cmdName)
       IN /\ Len(key) = Len(prefix) + 2
          /\ SubSeq(key, 1, Len(prefix)) = prefix
          /\ key[Len(prefix) + 1] = "_"
          /\ DOMAIN key[Len(key)] = {"md5"}

\* ---------------------------------------------------------------- C17

\* C17: a request for a command name, on a disk that takes writes, answers
\* "not found" exactly when extraction returns no Command for that name and
\* that user.
C17_NotFoundIffNoCommand ==
  (/\ result # << >>
   /\ result.op = "menu"
   /\ result.cmd # << >>
   /\ ~result.diskFails)
    => (result.ret = NotFound <=> single(result.cmd) = << >>)

\* ---------------------------------------------------------------- C18

\* The NameItem lists of the commands of the returned tree.
NameLists ==
  IF call.op \in {"all", "single"} /\ result # <<Thrown>>
    THEN {cmd.name : cmd \in TreeCommands(result)} ELSE {}

\* C18 (as amended): in every NameItem list of the tree the default entry, when
\* there is one, comes first, and the other entries follow in lexicographic
\* order of their names, enabled or not.
C18_NameOrder ==
  \A names \in NameLists : \A i, j \in DOMAIN names :
    i < j => /\ ~names[j].isDefault
             /\ names[i].isDefault \/ NameLess(names[i].name, names[j].name)

\* The default is first, then comes a disabled alias, then an enabled one.
C18_Witness ==
  \E names \in NameLists :
    /\ Len(names) = 3
    /\ names[1].isDefault
    /\ ~names[2].enabled
    /\ names[3].enabled

\* C18 (as stated): the default entry comes first, every enabled entry comes
\* before every disabled entry, and entries equal on both criteria are in
\* lexicographic order of their names.
C18_Original ==
  \A names \in NameLists : \A i, j \in DOMAIN names :
    i < j => /\ ~names[j].isDefault
             /\ ~(~names[i].enabled /\ names[j].enabled)
             /\ (/\ names[i].isDefault = names[j].isDefault
                 /\ names[i].enabled = names[j].enabled)
                  => NameLess(names[i].name, names[j].name)

\* ---------------------------------------------------------------- C19

\* C19: in every Command that extraction (all, single, related) produced and
\* in every Command that filter returned, at every depth, subs is absent or a
\* list with at least one child; it is never an empty list.
C19_SubsNeverEmpty ==
  call.op \in {"all", "single", "related", "filter"} =>
    \A cmd \in TreeCommands(result) :
      cmd.subs = Undefined \/ Len(cmd.subs[1]) > 0

\* ---------------------------------------------------------------- C20

\* C20: related(name) is the empty list when the target cannot be built, the
\* list [target] for a name without a dot, and for a dotted name of any depth
\* that resolves to a child command the list [parent, target], the parent being
\* the command that directly contains the target.
C20_RelatedParent ==
  call.op = "related" =>
    LET target == single(call.cmdName) IN
    IF target = << >> THEN result = << >>
    ELSE IF Len(call.cmdName) = 1 THEN result = target
    ELSE /\ Len(result) = 2
         /\ result[2] = target[1]
         /\ result[1].node = commander[target[1].node].parent

\* ---------------------------------------------------------------- C21

\* C21: every root command that is visible to the session and whose effective
\* authority (the override's over the static one) is at most the caller's is
\* in the list Extract.all returns, also when the override sets it to 0.
C21_ExtractionComplete ==
  call.op = "all" =>
    \A n \in Nodes :
      (/\ commander[n].parent = 0
       /\ commander[n].visible
       /\ RequiredAuthority(n) <= UserAuth)
        => \E i \in DOMAIN result : result[i].node = n

\* ---------------------------------------------------------------- C22

\* The text of the commands file: a JSON text by the value it stands for, or a
\* text JSON.parse rejects.  A JSON value is null, an object or an array; an
\* item of an array is a Command or the empty object.
JNull == [type |-> "null", items |-> << >>]
JObject == [type |-> "object", items |-> << >>]
JArray(items) == [type |-> "array", items |-> items]
EmptyItem == [shape |-> "none"]
JsonText(value) == [text |-> "json", value |-> value]
Garbage == [text |-> "garbage"]

\* FileStore.load('commands'): null (Undefined) when readFile or JSON.parse
\* throws and when the text is the JSON null, else the parsed value
load(fs) ==
  IF ~FileIn(fs, CommandsFile) THEN Undefined
  ELSE LET content == fs.inodes[fs.dir[CommandsFile]] IN
       IF content.text = "garbage" \/ content.value.type = "null" THEN Undefined
       ELSE Defined(content.value)

\* no file at all, for the calls that are given what they read as arguments
EmptyFiles == [dir |-> << >>, inodes |-> << >>]

IsCommandShape(item) == item # EmptyItem

\* getCommands with config.source = 'file' on the value loaded from the
\* commands file: the list it returns and the list it saves, if it saves one.
\* A value that is no array, and an item without options handed to filter,
\* throw a TypeError, and the catch returns []; findCommand skips such items.
getCommandsLoaded(loaded, cmdName, showHidden, extracted, live) ==
  IF loaded # Undefined /\ loaded[1].type # "array"
    THEN [commands |-> << >>, saved |-> Undefined]
  ELSE IF loaded # Undefined /\ \E i \in DOMAIN loaded[1].items :
                                   ~IsCommandShape(loaded[1].items[i])
    THEN LET found == findCommand(SelectSeq(loaded[1].items, IsCommandShape), cmdName)
         IN IF cmdName = << >> THEN [commands |-> << >>, saved |-> Undefined]
            ELSE IF found # << >>
              THEN [commands |-> filter(found, showHidden, TRUE), saved |-> Undefined]
            ELSE IF live = << >> THEN [commands |-> << >>, saved |-> Undefined]
            ELSE [commands |-> filter(live, showHidden, TRUE),
                  saved |-> Defined(Append(loaded[1].items, live[1]))]
  ELSE TheOne({[commands |-> got.commands, saved |-> ContentIn(got.files, CommandsFile)] :
                 got \in {getCommandsFile(EmptyFiles, cmdName, showHidden, FALSE,
                            IF loaded = Undefined THEN Undefined
                            ELSE Defined(loaded[1].items),
                            extracted, live)}})

\* getCommands(cmdName, session, locale, showHidden) with config.source =
\* 'file' is called on the commands file as it is, and saves what it saves.
CallGetCommandsFile ==
  \E cmdName \in MenuNames, showHidden \in BOOLEAN :
    /\ call = NoCall
    /\ \E loaded \in {load(Files)}, extracted \in {all}, live \in {single(cmdName)} :
       \E got \in {getCommandsLoaded(loaded, cmdName, showHidden, extracted, live)} :
         /\ call' = [op |-> "getCommands", cmdName |-> cmdName, showHidden |-> showHidden,
                     loaded |-> loaded,
                     fresh |-> getCommandsLoaded(Undefined, cmdName, showHidden,
                                                 extracted, live).commands]
         /\ result' = got.commands
         /\ \E fs \in {IF got.saved = Undefined THEN Files
                       ELSE WriteWhole(Files, CommandsFile, JsonText(JArray(got.saved[1])))} :
              /\ dir' = fs.dir
              /\ inodes' = fs.inodes
    /\ UNCHANGED <<commander, snapshots, session, procs, crashed, ghost>>

\* Registries of every shape, all open to the caller, and a commands file that
\* is missing, unparseable, or holds null, an object, an empty array, an array
\* of an empty object, or the list a session extracted.
InitLoad ==
  \E p \in Forests :
    LET reg == Registry(p, [m \in Nodes |-> Letters[m]])
    IN /\ commander = reg
       /\ snapshots = NoSnapshots(reg)
       /\ session = [authority |-> 0, locales |-> << >>]
       /\ call = NoCall
       /\ result = << >>
       /\ procs = << >>
       /\ crashed = FALSE
       /\ ghost = << >>
       /\ \E content \in {Undefined, Defined(Garbage), Defined(JsonText(JNull)),
                          Defined(JsonText(JObject)), Defined(JsonText(JArray(<< >>))),
                          Defined(JsonText(JArray(<<EmptyItem>>))),
                          Defined(JsonText(JArray(all)))} :
            \E fs \in {IF content = Undefined THEN EmptyFiles
                       ELSE WriteWhole(EmptyFiles, CommandsFile, content[1])} :
              /\ dir = fs.dir
              /\ inodes = fs.inodes

NextLoad == CallGetCommandsFile \/ Return

SpecLoad == InitLoad /\ [][NextLoad]_vars

\* The loaded value is a non-empty array whose first element is a Command.
ValidSnapshot(loaded) ==
  /\ loaded # Undefined
  /\ loaded[1].type = "array"
  /\ loaded[1].items # << >>
  /\ IsCommandShape(loaded[1].items[1])

\* C22: when the commands file holds anything but a non-empty array whose
\* first element is a Command, getCommands returns what it returns with no
\* file: the tree is extracted again.
C22_InvalidIsAbsent ==
  (call.op = "getCommands" /\ ~ValidSnapshot(call.loaded)) => result = call.fresh

\* ---------------------------------------------------------------- C23

\* The overrides of an option: an object that sets a description, one that
\* hides the option, and the scalar false.
OptionOverrides == {[text |-> "new"], [hidden |-> TRUE], Scalar(FALSE)}

\* Root commands of which the first has a snapshot: its initial options are x
\* and y or y alone, the override has any override of x and of a new option
\* z, a config or none, aliases or none; the static options of the command are
\* the initial ones or others.
InitMerge ==
  \E hasX \in BOOLEAN, staticSame \in BOOLEAN, hasAliases \in BOOLEAN,
     a \in AuthLevels,
     ox \in {<< >>} \cup {<<o>> : o \in OptionOverrides},
     oz \in {<< >>} \cup {<<o>> : o \in OptionOverrides},
     oc \in {<< >>, <<Obj1("authority", 1)>>, <<Obj1("hidden", TRUE)>>} :
    LET plain == Registry([n \in Nodes |-> 0], [n \in Nodes |-> Letters[n]])
        initialOptions ==
          (IF hasX THEN << <<"x", [syntax |-> "--x", text |-> "x", authority |-> 0]>> >>
           ELSE << >>) \o << <<"y", PlainOption("y", FALSE)>> >>
        overrideOptions ==
          (IF ox = << >> THEN << >> ELSE << <<"x", ox[1]>> >>)
            \o (IF oz = << >> THEN << >> ELSE << <<"z", oz[1]>> >>)
        override ==
          WithKey(WithKey(WithKey(EmptyObj,
            overrideOptions # << >>, "options", overrideOptions),
            oc # << >>, "config", IF oc # << >> THEN oc[1] ELSE EmptyObj),
            hasAliases, "aliases", << << <<"d">>, EmptyObj>> >>)
        reg == [plain EXCEPT ![1].config = Obj1("authority", a),
                             ![1]._options = IF staticSame THEN initialOptions
                                             ELSE << <<"s", PlainOption("s", FALSE)>> >>]
    IN /\ commander = reg
       /\ snapshots = [nm \in DOMAIN NoSnapshots(reg) |->
            IF nm = reg[1].name
              THEN <<[initial |-> [config |-> reg[1].config, options |-> initialOptions],
                      override |-> override]>>
              ELSE << >>]
       /\ session = [authority |-> 0, locales |-> << >>]
       /\ call = NoCall
       /\ result = << >>
       /\ NoFiles

NextMerge == CallGetEffectiveData \/ Return

SpecMerge == InitMerge /\ [][NextMerge]_vars

\* The option of key k as the claim states it: the override's value when it
\* is a scalar, the initial option with the override's keys laid over it when
\* it is an object, the initial option when there is no override of k.
ExpectedOption(initial, override, k) ==
  LET i == IndexOfKey(initial, k)
      o == IndexOfKey(override, k)
  IN IF o = 0 THEN initial[i][2]
     ELSE IF IsScalar(override[o][2]) THEN override[o][2]
     ELSE LET base == IF i = 0 THEN EmptyObj ELSE initial[i][2]
              over == override[o][2]
          IN [f \in (DOMAIN base) \cup (DOMAIN over) |->
                IF f \in DOMAIN over THEN over[f] ELSE base[f]]

\* What getEffectiveData returned for a command with a snapshot is the merge
\* as stated.
MergedAsStated ==
  (call.op = "getEffectiveData" /\ snapshots[commander[call.node].name] # << >>) =>
    LET snapshot == snapshots[commander[call.node].name][1]
        initial == snapshot.initial.options
        override == GetOr(snapshot.override, "options", << >>)
        ic == snapshot.initial.config
        oc == GetOr(snapshot.override, "config", EmptyObj)
    IN /\ SeqRange(Keys(result.options)) = SeqRange(Keys(initial)) \cup SeqRange(Keys(override))
       /\ Cardinality(SeqRange(Keys(result.options))) = Len(result.options)
       /\ \A i \in DOMAIN result.options :
            result.options[i][2] = ExpectedOption(initial, override, result.options[i][1])
       /\ DOMAIN result.config = (DOMAIN ic) \cup (DOMAIN oc)
       /\ \A f \in DOMAIN result.config :
            result.config[f] = IF f \in DOMAIN oc THEN oc[f] ELSE ic[f]
       /\ result.aliases = IF Has(snapshot.override, "aliases")
                             THEN snapshot.override.aliases
                             ELSE commander[call.node]._aliases

\* C23: for a command with a snapshot getEffectiveData returns the initial
\* options overlaid key by key with the override's (an object merged into the
\* initial option, a scalar in its place), the initial config overlaid with
\* the override's, and the override's aliases or else the static ones; the
\* call leaves the command and the snapshot as they were.
C23_OverrideMerge ==
  [][call'.op = "getEffectiveData" =>
       /\ MergedAsStated'
       /\ commander' = commander
       /\ snapshots' = snapshots]_vars

\* The override merges a description into x, which keeps its syntax, and sets
\* the new option z to a scalar.
C23_Witness ==
  /\ call.op = "getEffectiveData"
  /\ snapshots[commander[call.node].name] # << >>
  /\ \E i, j \in DOMAIN result.options :
       /\ result.options[i][1] = "x"
       /\ GetOr(result.options[i][2], "text", "") = "new"
       /\ GetOr(result.options[i][2], "syntax", "") = "--x"
       /\ result.options[j][1] = "z"
       /\ result.options[j][2] = Scalar(FALSE)

\* ---------------------------------------------------------------- C24

\* The command of the list filter was given that the returned command cmd
\* comes from.
FilterInput(cmd) == CHOOSE src \in SeqRange(call.commands) : src.node = cmd.node

\* C24 (as amended): in every command filter(commands, false, isDetailView)
\* returns, its own options and its own subs hold no hidden entry and every
\* entry of the input that is not hidden; filter(commands, true, isDetailView)
\* returns the options and the subs of the input.  (The options and the subs
\* of a subcommand are those of the input.)
C24_HiddenStripped ==
  call.op = "filter" =>
    \A cmd \in SeqRange(result) :
      LET src == FilterInput(cmd) IN
      IF call.showHidden
        THEN cmd.options = src.options /\ SubsOf(cmd) = SubsOf(src)
        ELSE /\ \A opt \in SeqRange(cmd.options) : ~opt.hidden
             /\ \A sub \in SeqRange(SubsOf(cmd)) : ~sub.hidden
             /\ \A opt \in SeqRange(src.options) :
                  ~opt.hidden => opt \in SeqRange(cmd.options)
             /\ \A sub \in SeqRange(SubsOf(src)) :
                  ~sub.hidden => sub \in SeqRange(SubsOf(cmd))

\* filter without showHidden returned a command that had a hidden option and
\* a hidden and a shown subcommand, with the shown subcommand alone.
C24_Witness ==
  /\ call.op = "filter"
  /\ ~call.showHidden
  /\ \E cmd \in SeqRange(result) :
       /\ \E opt \in SeqRange(FilterInput(cmd).options) : opt.hidden
       /\ \E sub \in SeqRange(SubsOf(FilterInput(cmd))) : sub.hidden
       /\ Len(SubsOf(cmd)) = 1
       /\ cmd.options # << >>

\* C24 (as stated, of the whole tree): in what filter(commands, false,
\* isDetailView) returns no hidden option and no hidden subcommand remains, at
\* any depth.
C24_Original ==
  (call.op = "filter" /\ ~call.showHidden) =>
    \A cmd \in TreeCommands(result) :
      /\ \A opt \in SeqRange(cmd.options) : ~opt.hidden
      /\ \A sub \in SeqRange(SubsOf(cmd)) : ~sub.hidden

\* ---------------------------------------------------------------- C25

\* The candidates buildOptions hands to addOption for node n, in the order it
\* meets them, each with its final name: an option without a value key under
\* its base name, then its variants under base.variantKey.
Candidates(n) ==
  FlatMap(LAMBDA entry :
            (IF Has(entry[2], "value") THEN << >> ELSE << <<BaseName(entry), entry[2]>> >>)
              \o [v \in DOMAIN VariantsOf(entry) |->
                    <<BaseName(entry) \o "." \o VariantsOf(entry)[v][1],
                      VariantsOf(entry)[v][2]>>],
          DeclaredOptions(n))

\* The option opt of the output is the one built from the candidate cand.
BuiltFrom(opt, cand) ==
  /\ opt.name = cand[1]
  /\ opt.syntax = GetOr(cand[2], "syntax", "")
  /\ opt.desc = GetOr(cand[2], "text", "")
  /\ opt.authority = GetOr(cand[2], "authority", 0)

\* C25 (as amended): every option of a built Command has a description or a
\* syntax and requires no more than the caller's authority, no two options
\* share a name, and the option kept under a name is the first candidate of
\* that name that has a description or a syntax and is within the caller's
\* authority.
C25_OptionInvariant ==
  call.op = "all" =>
    \A cmd \in TreeCommands(result) :
      LET cands == Candidates(cmd.node) IN
      /\ \A k \in DOMAIN cmd.options :
           /\ cmd.options[k].desc # "" \/ cmd.options[k].syntax # ""
           /\ cmd.options[k].authority <= UserAuth
           /\ Cardinality(EntriesNamed(cmd, cmd.options[k].name)) = 1
           /\ \E c \in DOMAIN cands :
                /\ cands[c][1] = cmd.options[k].name
                /\ Listable(cands[c][2])
                /\ \A b \in 1..(c - 1) :
                     cands[b][1] = cands[c][1] => ~Listable(cands[b][2])
                /\ BuiltFrom(cmd.options[k], cands[c])

\* Two listable candidates have the name format, and the first one, alt, is
\* the option of the output.
C25_Witness ==
  /\ call.op = "all"
  /\ \E cmd \in TreeCommands(result) :
       LET cands == Candidates(cmd.node) IN
       /\ Len(cands) >= 2
       /\ cands[1][1] = "format" /\ cands[2][1] = "format"
       /\ Listable(cands[1][2]) /\ Listable(cands[2][2])
       /\ \E k \in DOMAIN cmd.options :
            cmd.options[k].name = "format" /\ cmd.options[k].syntax = "-f"

\* C25 (as stated): ... and the option kept under a name is the first
\* candidate met with that name.
C25_Original ==
  call.op = "all" =>
    \A cmd \in TreeCommands(result) :
      LET cands == Candidates(cmd.node) IN
      \A k \in DOMAIN cmd.options :
        /\ cmd.options[k].desc # "" \/ cmd.options[k].syntax # ""
        /\ cmd.options[k].authority <= UserAuth
        /\ Cardinality(EntriesNamed(cmd, cmd.options[k].name)) = 1
        /\ \E c \in DOMAIN cands :
             /\ cands[c][1] = cmd.options[k].name
             /\ \A b \in 1..(c - 1) : cands[b][1] # cands[c][1]
             /\ BuiltFrom(cmd.options[k], cands[c])

\* ---------------------------------------------------------------- C26

\* The plugin that owns command n gives it a usage text (cmd.usage(text))
\* between two requests.
SetUsage(n) ==
  /\ call = NoCall
  /\ commander[n]._usage = << >>
  /\ commander' = [commander EXCEPT ![n]._usage = <<Str("new")>>]
  /\ UNCHANGED <<snapshots, session, call, result, fvars>>

\* The registry of InitMenu with every command open to every caller, no file.
InitFresh ==
  /\ commander = Registry([m \in Nodes |-> IF m = 2 THEN 1 ELSE 0],
                          [m \in Nodes |-> Letters[m]])
  /\ snapshots = NoSnapshots(commander)
  /\ session = [authority |-> 0, locales |-> << >>]
  /\ call = NoCall
  /\ result = << >>
  /\ dir = << >>
  /\ inodes = << >>
  /\ procs = << >>
  /\ crashed = FALSE
  /\ ghost = [requests |-> 0]

\* Requests with the cache enabled on a disk that takes writes, and changes of
\* the registry between them.
NextFresh ==
  \/ \E cmd \in MenuNames, hidden \in BOOLEAN, clear \in BOOLEAN :
       ReceiveMenu(0, cmd, hidden, clear)
  \/ \E source \in {"file", "inline"} : MenuAction(source, TRUE, FALSE)
  \/ \E n \in Nodes : SetUsage(n)

SpecFresh == InitFresh /\ [][NextFresh]_vars

\* C26: with the cache enabled, the image a request is answered with is the
\* image of the command list of that request as the registry is now.
C26_CacheHitsFresh ==
  (result # << >> /\ result.op = "menu" /\ result.ret.kind = "image")
    => result.ret.buffer = Rendered(result.commands, result.cmd)

\* ---------------------------------------------------------------- C27

\* C27: with config.source = 'file', the command list of a request holds no
\* command, subcommand or option that requires more than the authority of the
\* caller of that request.
C27_FileModePermissions ==
  (result # << >> /\ result.op = "menu" /\ result.source = "file") =>
    \A cmd \in TreeCommands(result.commands) :
      /\ cmd.authority <= session.authority
      /\ \A opt \in SeqRange(cmd.options) : opt.authority <= session.authority

\* ---------------------------------------------------------------- C28
\* MenuPlugin.getCommandImage on the CacheManager it shares between requests.
\* In the specifications of the MenuPlugin variants, `call` holds the fields
\* of the plugin object and `procs` the menu requests in progress.

\* The requests in progress at the same time are the Clients.

Locales == {"zh", "en"}

\* styleManager.getThemeId()
ThemeId == "light"

\* The names asked for: "a" is a command, "n" is not.
AskedNames == {"a", "n"}

\* CacheManager.getCommandImagePath(commandName), from this.locale and this.themeId
getCommandImagePath(cacheManager, commandName) ==
  "cmd_" \o commandName \o "_" \o cacheManager.locale \o "_" \o cacheManager.themeId \o ".png"

\* The path of the image of (command, locale, theme)
PathOf(commandName, locale, themeId) ==
  getCommandImagePath([locale |-> locale, themeId |-> themeId], commandName)

ImageFiles ==
  {PathOf(n, l, ThemeId) : n \in AskedNames, l \in Locales}

\* commandExtractor.getCommandData(commandName, locale): null for no such command
getCommandData(commandName, locale) ==
  IF commandName = "a" THEN <<[name |-> commandName, locale |-> locale]>> ELSE << >>

\* renderer.renderCommandHTML(commandData, ...): the image shows the texts of
\* the locale the data was extracted with
renderCommandHTML(commandData) ==
  [image |-> commandData.name, locale |-> commandData.locale]

\* A menu request arrives: the action calls handleMenuCommand, which calls
\* getCommandImage(commandName, userLocale).  updateConfig sets the locale of
\* the shared CacheManager; hasCommandCache and the path of readImageCache are
\* evaluated before the first await.
GetCommandImageStart(c, commandName, locale) ==
  /\ procs[c].pc = "idle"
  /\ call' = [call EXCEPT !.cacheManager = [locale |-> locale, themeId |-> ThemeId]]
  /\ procs' = [procs EXCEPT ![c] =
       [pc |-> IF call.config.cacheEnabled /\ Exists(PathOf(commandName, locale, ThemeId))
                 THEN "read" ELSE "extract",
        commandName |-> commandName, locale |-> locale,
        path |-> PathOf(commandName, locale, ThemeId)]]
  /\ UNCHANGED <<commander, snapshots, session, result, dir, inodes, crashed, ghost>>

\* readImageCache(path) resolves: the buffer of the file, or null
GetCommandImageRead(c) ==
  /\ procs[c].pc = "read"
  /\ procs' = [procs EXCEPT ![c] =
       IF ReadFile(procs[c].path) # << >>
         THEN [@ EXCEPT !.pc = "done"] @@ [ret |-> ReadFile(procs[c].path)[1]]
         ELSE [@ EXCEPT !.pc = "extract"]]
  /\ ghost' = IF ReadFile(procs[c].path) # << >>
                THEN [ghost EXCEPT !.reads = @ \cup {<<c, procs[c].path>>}]
                ELSE ghost
  /\ UNCHANGED <<dir, inodes, crashed, xvars>>

\* getCommandData resolves: the request throws for no data, and
\* handleMenuCommand's catch answers with the error text
GetCommandImageExtract(c) ==
  /\ procs[c].pc = "extract"
  /\ procs' = [procs EXCEPT ![c] =
       IF getCommandData(procs[c].commandName, procs[c].locale) = << >>
         THEN [@ EXCEPT !.pc = "failed"]
         ELSE [@ EXCEPT !.pc = "render"] @@
              [data |-> getCommandData(procs[c].commandName, procs[c].locale)[1]]]
  /\ UNCHANGED <<dir, inodes, crashed, ghost, xvars>>

\* renderCommandHTML resolves; the argument of saveImageCache,
\* this.cacheManager.getCommandImagePath(commandName), is evaluated now, and
\* safeWriteFile starts with fs.writeFile(`${path}.tmp`, data)
GetCommandImageRender(c) ==
  /\ procs[c].pc = "render"
  /\ procs' = [procs EXCEPT ![c] =
       [@ EXCEPT !.pc = IF call.config.cacheEnabled THEN "write" ELSE "done",
                 !.path = getCommandImagePath(call.cacheManager, procs[c].commandName)]
         @@ [ret |-> renderCommandHTML(procs[c].data)]]
  /\ UNCHANGED <<dir, inodes, crashed, ghost, xvars>>

\* fs.writeFile(tmp, data) resolves; if (existsSync(path)) ...
SaveImageWrite(c) ==
  /\ procs[c].pc = "write"
  /\ inodes' = Append(inodes, procs[c].ret)
  /\ dir' = [dir EXCEPT ![TmpPath(procs[c].path)] = Len(inodes) + 1]
  /\ procs' = [procs EXCEPT ![c].pc = IF Exists(procs[c].path) THEN "unlink" ELSE "rename"]
  /\ UNCHANGED <<crashed, ghost, xvars>>

\* await fs.unlink(path).catch(() => {})
SaveImageUnlink(c) ==
  /\ procs[c].pc = "unlink"
  /\ dir' = [dir EXCEPT ![procs[c].path] = 0]
  /\ procs' = [procs EXCEPT ![c].pc = "rename"]
  /\ UNCHANGED <<inodes, crashed, ghost, xvars>>

\* await fs.rename(tmp, path); when tmp is gone safeWriteFile throws and
\* saveImageCache returns false: the request is answered with its image
SaveImageRename(c) ==
  /\ procs[c].pc = "rename"
  /\ dir' = IF Exists(TmpPath(procs[c].path))
              THEN [dir EXCEPT ![procs[c].path] = dir[TmpPath(procs[c].path)],
                               ![TmpPath(procs[c].path)] = 0]
              ELSE dir
  /\ ghost' = IF Exists(TmpPath(procs[c].path))
                THEN [ghost EXCEPT !.stores = @ \cup {<<c, procs[c].path>>}]
                ELSE ghost
  /\ procs' = [procs EXCEPT ![c].pc = "done"]
  /\ UNCHANGED <<inodes, crashed, xvars>>

\* The plugin is ready, the image directory is empty, no request has arrived.
InitLocale ==
  /\ commander = << >>
  /\ snapshots = << >>
  /\ session = [authority |-> 0, locales |-> << >>]
  /\ \E cacheEnabled \in BOOLEAN, locale \in Locales :
       call = [op |-> "MenuPlugin", config |-> [cacheEnabled |-> cacheEnabled],
               cacheManager |-> [locale |-> locale, themeId |-> ThemeId]]
  /\ result = << >>
  /\ dir = [name \in ImageFiles \cup {TmpPath(f) : f \in ImageFiles} |-> 0]
  /\ inodes = << >>
  /\ procs = [c \in Clients |-> [pc |-> "idle"]]
  /\ crashed = FALSE
  /\ ghost = [reads |-> {}, stores |-> {}]

NextLocale ==
  \/ \E c \in Clients, commandName \in AskedNames, locale \in Locales :
       GetCommandImageStart(c, commandName, locale)
  \/ \E c \in Clients : GetCommandImageRead(c)
  \/ \E c \in Clients : GetCommandImageExtract(c)
  \/ \E c \in Clients : GetCommandImageRender(c)
  \/ \E c \in Clients : SaveImageWrite(c)
  \/ \E c \in Clients : SaveImageUnlink(c)
  \/ \E c \in Clients : SaveImageRename(c)

SpecLocale == InitLocale /\ [][NextLocale]_vars

\* C28: every request read the image file of its own locale and theme and
\* stored its image under the path of its own locale and theme, and the image
\* in the file of (command, locale L, theme T) was rendered with locale L.
C28_LocaleIsolation ==
  /\ \A e \in ghost.reads \cup ghost.stores :
       e[2] = PathOf(procs[e[1]].commandName, procs[e[1]].locale, ThemeId)
  /\ \A n \in AskedNames, l \in Locales :
       Exists(PathOf(n, l, ThemeId)) => inodes[dir[PathOf(n, l, ThemeId)]].locale = l

\* The part of C28 on reads alone.
C28_ReadsOwnPath ==
  \A e \in ghost.reads :
    e[2] = PathOf(procs[e[1]].commandName, procs[e[1]].locale, ThemeId)

\* ---------------------------------------------------------------- C29
\* The menu action of the variant whose options override the configuration
\* (apply of cache-manager.ts, second half).  `call` holds config and the
\* cacheManager of apply's closure.

\* options.dark: undefined, or the flag given
DarkOptions == {Undefined, Defined(TRUE), Defined(FALSE)}

\* options.locale: undefined, or a locale
LocaleOptions == {Undefined} \cup {Defined(l) : l \in Locales}

\* options.command: undefined, or a name
CommandOptions == {Undefined} \cup {Defined(n) : n \in AskedNames}

\* getCommand(commandName): ctx.$commander.get, null for no such command
getCommand(commandName) ==
  IF commandName = "a" THEN <<[name |-> commandName]>> ELSE << >>

\* const originalConfig = { darkMode, locale, useCache }
OriginalConfig(config) ==
  [darkMode |-> config.darkMode, locale |-> config.locale, useCache |-> config.useCache]

\* if (options.dark !== undefined) ...; if (options.locale) ...; if (options.refresh) ...
ApplyOptions(config, options) ==
  [config EXCEPT
     !.darkMode = IF options.dark # Undefined THEN options.dark[1] ELSE @,
     !.locale = IF options.locale # Undefined THEN options.locale[1] ELSE @,
     !.useCache = IF options.refresh THEN FALSE ELSE @]

\* The action starts and runs to the await of getCommandImage or
\* getCommandListImage: the options are applied to config and the
\* cacheManager is created again when the theme or the locale was given.
MenuOptionsStart(c, options) ==
  /\ procs[c].pc \in {"idle", "returned"}
  /\ call' = [call EXCEPT
       !.config = ApplyOptions(@, options),
       !.cacheManager =
          IF options.dark # Undefined \/ options.locale # Undefined
            THEN [locale |-> ApplyOptions(call.config, options).locale,
                  darkMode |-> ApplyOptions(call.config, options).darkMode]
            ELSE @]
  /\ procs' = [procs EXCEPT ![c] =
       [pc |-> "image", command |-> options.command,
        originalConfig |-> OriginalConfig(call.config)]]
  /\ UNCHANGED <<commander, snapshots, session, result, dir, inodes, crashed, ghost>>

\* Whether getCommandImage / getCommandListImage throws: always for a command
\* that does not exist, and whenever the renderer or the file system fails.
ImageThrows(command, fails) ==
  \/ fails
  \/ command # Undefined /\ getCommand(command[1]) = << >>

\* The image resolves and Object.assign(config, originalConfig) restores the
\* three fields, or the await throws into the catch, which answers with the
\* error text.
MenuOptionsReturn(c, fails) ==
  /\ procs[c].pc = "image"
  /\ IF ImageThrows(procs[c].command, fails)
       THEN /\ call' = call
            /\ procs' = [procs EXCEPT ![c] = [pc |-> "returned", ret |-> "error"]]
       ELSE /\ call' = [call EXCEPT !.config = Spread(@, procs[c].originalConfig)]
            /\ procs' = [procs EXCEPT ![c] = [pc |-> "returned", ret |-> "image"]]
  /\ UNCHANGED <<commander, snapshots, session, result, dir, inodes, crashed, ghost>>

\* The plugin is loaded with any configuration; no request has arrived.
InitOptionsMenu ==
  /\ commander = << >>
  /\ snapshots = << >>
  /\ session = [authority |-> 0, locales |-> << >>]
  /\ \E darkMode \in BOOLEAN, locale \in Locales, useCache \in BOOLEAN :
       call = [op |-> "apply",
               config |-> [darkMode |-> darkMode, locale |-> locale,
                           useCache |-> useCache, prerender |-> TRUE],
               cacheManager |-> [locale |-> locale, darkMode |-> darkMode]]
  /\ result = << >>
  /\ dir = << >>
  /\ inodes = << >>
  /\ procs = [c \in Clients |-> [pc |-> "idle"]]
  /\ crashed = FALSE
  /\ ghost = << >>

NextOptionsMenu ==
  \/ \E c \in Clients, dark \in DarkOptions, locale \in LocaleOptions,
        command \in CommandOptions, refresh \in BOOLEAN :
       MenuOptionsStart(c, [dark |-> dark, locale |-> locale,
                            command |-> command, refresh |-> refresh])
  \/ \E c \in Clients, fails \in BOOLEAN : MenuOptionsReturn(c, fails)

SpecOptionsMenu == InitOptionsMenu /\ [][NextOptionsMenu]_vars

\* C29: when a menu action returns, with an image or with an error text,
\* config.darkMode, config.locale and config.useCache are what they were when
\* that action started.
C29_OverridesTemporary ==
  [][\A c \in Clients :
       (procs[c].pc = "image" /\ procs'[c].pc = "returned")
         => OriginalConfig(call'.config) = procs[c].originalConfig]_vars

\* The part of C29 on the actions that return an image.
C29_RestoredWithImage ==
  [][\A c \in Clients :
       (procs[c].pc = "image" /\ procs'[c].pc = "returned" /\ procs'[c].ret = "image")
         => OriginalConfig(call'.config) = procs[c].originalConfig]_vars

\* ---------------------------------------------------------------- C30
\* The 'ready' handler and the ready flag, in the function variant (apply of
\* index.ts, third part) and in the class variant (MenuPlugin.initialize).
\* `call` holds the variant, its config and its ready flag; procs[1] is the
\* handler.

\* cmd.getAllCmds() / commandExtractor.collectAllCommands()
AllCmds == <<"a", "b">>

ListImage == "command_list"

\* The handler starts when koishi emits 'ready'; cache.initialize() and
\* style.initialize() resolve, the renderer is created, and the handler
\* awaits the prerendering: cache.loadCommandsData() first.  The class
\* variant prerenders only with config.prerender.
ReadyInitialize ==
  /\ procs[1].pc = "waiting"
  /\ IF call.variant = "class" /\ ~call.config.prerender
       THEN /\ call' = [call EXCEPT !.ready = TRUE]
            /\ procs' = [procs EXCEPT ![1].pc = "done"]
       ELSE /\ call' = call
            /\ procs' = [procs EXCEPT ![1].pc = "load"]
  /\ UNCHANGED <<commander, snapshots, session, result, dir, inodes, crashed, ghost>>

\* The categories are loaded or extracted; then the list is rendered when the
\* cache is enabled and holds no list image, and the commands follow.
ReadyLoad ==
  /\ procs[1].pc = "load"
  /\ IF call.config.cacheEnabled
       THEN /\ call' = call
            /\ procs' = [procs EXCEPT ![1].pc =
                           IF Exists(ListImage) THEN "commands" ELSE "list"]
       ELSE /\ call' = [call EXCEPT !.ready = TRUE]
            /\ procs' = [procs EXCEPT ![1].pc = "done"]
  /\ UNCHANGED <<commander, snapshots, session, result, dir, inodes, crashed, ghost>>

\* await render.renderList(...) resolves, and the image is saved, or throws.
\* Function variant: the throw leaves the try block of the handler, whose
\* catch logs it.  Class variant: prerenderCommands catches it and returns
\* false, and initialize goes on to this.ready = true.
ReadyRenderList(throws) ==
  /\ procs[1].pc = "list"
  /\ IF throws
       THEN /\ call' = [call EXCEPT !.ready = IF call.variant = "class" THEN TRUE ELSE @]
            /\ procs' = [procs EXCEPT ![1].pc = "done", ![1].listThrew = TRUE]
            /\ UNCHANGED <<dir, inodes>>
       ELSE /\ call' = call
            /\ procs' = [procs EXCEPT ![1].pc = "commands"]
            /\ inodes' = Append(inodes, [image |-> ListImage])
            /\ dir' = [dir EXCEPT ![ListImage] = Len(inodes) + 1]
  /\ UNCHANGED <<commander, snapshots, session, result, crashed, ghost>>

\* prerenderCmds: one pass of the loop.  A cached command is skipped; a throw
\* of getCommandData or of the renderer is caught inside the loop.  After the
\* last command the handler sets ready.
ReadyRenderCmd(throws) ==
  /\ procs[1].pc = "commands"
  /\ LET name == AllCmds[procs[1].i]
         last == procs[1].i = Len(AllCmds)
     IN /\ IF throws \/ Exists(name)
             THEN UNCHANGED <<dir, inodes>>
             ELSE /\ inodes' = Append(inodes, [image |-> name])
                  /\ dir' = [dir EXCEPT ![name] = Len(inodes) + 1]
        /\ procs' = [procs EXCEPT ![1].i = IF last THEN @ ELSE @ + 1,
                                  ![1].pc = IF last THEN "done" ELSE @,
                                  ![1].cmdThrew = @ \/ throws]
        /\ call' = [call EXCEPT !.ready = IF last THEN TRUE ELSE @]
  /\ UNCHANGED <<commander, snapshots, session, result, crashed, ghost>>

\* A menu request: if (!ready) return '插件正在初始化，请稍后再试...';
\* otherwise the request is handled (an image or an error text).
MenuWhenReady ==
  /\ result' = [op |-> "menu",
                ret |-> IF call.ready THEN "handled" ELSE "initializing",
                handlerDone |-> procs[1].pc = "done"]
  /\ UNCHANGED <<commander, snapshots, session, call, fvars>>

\* The image files of the list and of the commands
ReadyFiles == <<ListImage>> \o AllCmds

\* The plugin is loaded, 'ready' has not been emitted; the image directory
\* holds any of the images of an earlier run.
InitReady ==
  /\ commander = << >>
  /\ snapshots = << >>
  /\ session = [authority |-> 0, locales |-> << >>]
  /\ \E variant \in {"function", "class"}, cacheEnabled \in BOOLEAN, prerender \in BOOLEAN :
       call = [op |-> "plugin", variant |-> variant, ready |-> FALSE,
               config |-> [cacheEnabled |-> cacheEnabled, prerender |-> prerender]]
  /\ result = << >>
  /\ \E old \in SUBSET (1..Len(ReadyFiles)) :
       /\ dir = [name \in SeqRange(ReadyFiles) |->
                   IF \E i \in old : ReadyFiles[i] = name
                     THEN CHOOSE i \in old : ReadyFiles[i] = name ELSE 0]
       /\ inodes = [i \in 1..Len(ReadyFiles) |-> [image |-> ReadyFiles[i]]]
  /\ procs = <<[pc |-> "waiting", i |-> 1, listThrew |-> FALSE, cmdThrew |-> FALSE]>>
  /\ crashed = FALSE
  /\ ghost = << >>

NextReady ==
  \/ ReadyInitialize
  \/ ReadyLoad
  \/ \E throws \in BOOLEAN : ReadyRenderList(throws)
  \/ \E throws \in BOOLEAN : ReadyRenderCmd(throws)
  \/ MenuWhenReady

SpecReady == InitReady /\ [][NextReady]_vars

\* C30: once the 'ready' handler has run to completion, a throw while
\* prerendering the list or a command included, the ready flag is true, and a
\* menu request made after that is not answered with the 'initializing' text.
C30_ReadyAfterHandler ==
  /\ procs[1].pc = "done" => call.ready
  /\ (result # << >> /\ result.handlerDone) => result.ret # "initializing"

\* The part of C30 that holds: the class variant, and the function variant
\* when the list did not throw.
C30_ReadyUnlessListThrew ==
  (procs[1].pc = "done" /\ (call.variant = "class" \/ ~procs[1].listThrew)) => call.ready

====
